---- MODULE Spec2Model ----
(***************************************************************************)
(* Model of the caelestia-installer provisioning pipeline                  *)
(* (src/src/main.rs and the step modules it drives).                       *)
(*                                                                         *)
(* Text is modelled as a sequence of fragments: a string is the            *)
(* concatenation of its fragments, a fragment is never split, and          *)
(* `contains` / `starts_with` / `trim().is_empty()` are computed on the    *)
(* fragment sequence.  A captured stdout is a sequence of lines.           *)
(***************************************************************************)
EXTENDS Integers, Sequences, FiniteSets, TLC

\* ------------------------------------------------------------------ bounds
\* longest stdout (in lines) of the initial package-manager invocation
MaxLines == 2
\* longest stdout (in lines) of the retry invocation
MaxRetryLines == 2

\* how far around each memory limit the MemTotal values are sampled, in kB
MaxDelta == 2
MaxSourceLines == 3

\* ------------------------------------------------------------ text helpers
\* str::contains on fragment sequences: pat occurs as a contiguous run of s
StrContains(s, pat) ==
    \E i \in 0..(Len(s) - Len(pat)) : \A j \in 1..Len(pat) : s[i + j] = pat[j]

\* str::starts_with
StartsWith(s, pat) ==
    /\ Len(s) >= Len(pat)
    /\ \A j \in 1..Len(pat) : s[j] = pat[j]

\* line.trim().is_empty(): nothing but whitespace fragments
TrimIsEmpty(s) == \A j \in 1..Len(s) : s[j] = " "

\* contains on a whole captured stream; no searched phrase holds a newline,
\* so a match lies within one line
OutContains(out, pat) == \E i \in 1..Len(out) : StrContains(out[i], pat)

\* all sequences over S of length 0..n
RECURSIVE SeqsUpTo(_, _)
SeqsUpTo(S, n) ==
    IF n = 0 THEN { <<>> }
    ELSE LET shorter == SeqsUpTo(S, n - 1)
         IN  shorter \cup { Append(s, x) : s \in { t \in shorter : Len(t) = n - 1 }, x \in S }

\* Vec::iter().take(n)
Take(s, n) == SubSeq(s, 1, IF n < Len(s) THEN n ELSE Len(s))

\* the elements of a sequence
Range(s) == { s[i] : i \in 1..Len(s) }

\* ------------------------------------------------------ packages.rs tables
CRITICAL_QT_PACKAGES ==
    << "qt6-qtbase-devel", "qt6-qtdeclarative-devel", "qt6-qtwayland-devel",
       "qt6-qtsvg-devel", "qt6-qtshadertools-devel", "qt6-qtbase-private-devel",
       "qt6-qtconnectivity-devel" >>

PACKAGES ==
    << "hyprland", "xdg-desktop-portal-hyprland", "xdg-desktop-portal-gtk",
       "hyprutils-devel", "hyprlang-devel", "foot", "fish", "greetd", "tuigreet",
       "qt6-qtbase-devel", "qt6-qtbase-private-devel", "qt6-qtdeclarative-devel",
       "qt6-qtdeclarative-static", "qt6-qtbase-static", "qt6-qtwayland-devel",
       "qt6-qtsvg-devel", "qt6-qtshadertools-devel", "qt6-qtconnectivity-devel",
       "spirv-tools", "cli11-devel", "jemalloc-devel", "wayland-devel",
       "wayland-protocols-devel", "libdrm-devel", "mesa-libgbm-devel",
       "pipewire-devel", "polkit-devel", "pam-devel", "pkgconf-pkg-config",
       "libqalculate-devel", "aubio-devel", "alsa-lib-devel", "fftw-devel",
       "pulseaudio-libs-devel", "autoconf-archive", "iniparser-devel", "libtool",
       "cmake", "ninja-build", "gcc-c++", "git", "curl", "tar", "unzip",
       "python3-devel", "python3-build", "python3-hatchling", "python3-pip",
       "libnotify", "fuzzel", "glib2-devel", "adw-gtk3-theme",
       "papirus-icon-theme", "google-noto-fonts-common", "google-noto-sans-fonts",
       "google-rubik-fonts", "fontawesome-fonts", "eza", "fastfetch", "btop",
       "wl-clipboard", "grim", "slurp", "swappy", "brightnessctl", "playerctl",
       "pamixer", "NetworkManager", "lxpolkit", "Thunar", "plasma-discover",
       "plasma-discover-flatpak", "zoxide", "fzf" >>

\* how many of CRITICAL_QT_PACKAGES the skip scan looks for
ScanTake == 3

\* the phrases install_all searches the package manager's stdout for
SkipConflicts == << "Skipping packages", " with conflicts" >>
SkipBroken    == << "Skipping packages", " with broken dependencies" >>
SkipAny       == << "Skipping packages" >>

\* ------------------------------------------- package manager output samples
\* lines dnf can print, as fragment sequences
LineHdrConflicts == << "Skipping packages", " with conflicts", ":" >>
LineHdrBroken    == << "Skipping packages", " with broken dependencies", ":" >>
LineBlank        == << >>
LineInstalling   == << "Installing", ":" >>
LineUpgrading    == << "Upgrading", ":" >>
LineQtBase       == << " ", "qt6-qtbase-devel", " ", "x86_64" >>
LineQtSvg        == << " ", "qt6-qtsvg-devel", " ", "x86_64" >>
LineFish         == << " ", "fish", " ", "x86_64" >>
LineQtBaseDebug  == << " ", "qt6-qtbase-devel", "-debuginfo", " ", "x86_64" >>
LineInstallingQt == << "Installing", " ", "qt6-qtbase-devel" >>
LineTwoQt        == << " ", "qt6-qtbase-devel", " ", "qt6-qtdeclarative-devel" >>

DnfLines ==
    { LineHdrConflicts, LineHdrBroken, LineBlank, LineInstalling, LineUpgrading,
      LineQtBase, LineQtSvg, LineFish, LineQtBaseDebug, LineInstallingQt, LineTwoQt }

\* lines the retry invocation can print
RetryLines == { LineHdrConflicts, LineBlank, LineQtBase, LineQtSvg }

\* std::process::Output of one invocation as install_all sees it:
\* launch = FALSE is Command::output() returning Err (nothing was spawned)
ProcResult(launch, success, stdout) ==
    [ launch |-> launch, success |-> success, stdout |-> stdout ]

NoLaunch == ProcResult(FALSE, FALSE, << >>)

ProcResultsOver(lines, n) ==
    { NoLaunch } \cup
    { ProcResult(TRUE, s, o) : s \in BOOLEAN, o \in SeqsUpTo(lines, n) }

ProcResults(n) == ProcResultsOver(DnfLines, n)

\* --------------------------------------------------------------- install_all
\* the critical packages named by one line, in table order
LineSkipped(line) ==
    SelectSeq(Take(CRITICAL_QT_PACKAGES, ScanTake), LAMBDA pkg : StrContains(line, << pkg >>))

\* (mutation of ScanSkipped: a section, once entered, is never left)
RECURSIVE ScanSkippedNoEnd(_, _, _, _)
ScanSkippedNoEnd(lines, i, in_skipping_section, skipped_critical) ==
    IF i > Len(lines) THEN skipped_critical
    ELSE IF StrContains(lines[i], SkipAny)
         THEN ScanSkippedNoEnd(lines, i + 1, TRUE, skipped_critical)
         ELSE ScanSkippedNoEnd(lines, i + 1, in_skipping_section,
                               IF in_skipping_section
                               THEN skipped_critical \o LineSkipped(lines[i])
                               ELSE skipped_critical)

\* the `for line in &lines` loop: (in_skipping_section, skipped_critical)
RECURSIVE ScanSkipped(_, _, _, _)
ScanSkipped(lines, i, in_skipping_section, skipped_critical) ==
    IF i > Len(lines) THEN skipped_critical
    ELSE IF StrContains(lines[i], SkipAny)
         THEN ScanSkipped(lines, i + 1, TRUE, skipped_critical)
         ELSE LET ends == in_skipping_section
                          /\ ( TrimIsEmpty(lines[i])
                               \/ StartsWith(lines[i], << "Installing" >>)
                               \/ StartsWith(lines[i], << "Upgrading" >>) )
                  inside == in_skipping_section /\ ~ends
              IN  ScanSkipped(lines, i + 1, inside,
                              IF inside THEN skipped_critical \o LineSkipped(lines[i])
                              ELSE skipped_critical)

\* the gate of the scan: one of the two full skip phrases occurs in stdout
HasSkipMarker(stdout) ==
    OutContains(stdout, SkipConflicts) \/ OutContains(stdout, SkipBroken)

\* (mutation of SkippedCritical: the scan runs ungated and starts inside a section)
SkippedCriticalUngated(stdout) == ScanSkipped(stdout, 1, TRUE, << >>)

SkippedCritical(stdout) ==
    IF HasSkipMarker(stdout) THEN ScanSkipped(stdout, 1, FALSE, << >>) ELSE << >>

\* argument vectors handed to `sudo`
InstallArgs == << "dnf", "install", "-y", "--allowerasing" >> \o PACKAGES
RetryArgs(skipped_critical) ==
    << "dnf", "install", "-y", "--allowerasing" >> \o CRITICAL_QT_PACKAGES

\* (mutation of RetryFailed: only the exit status of the retry is looked at)
RetryFailedStatusOnly(second) == ~second.success

\* the retry is judged failed
RetryFailed(second) == ~second.success \/ OutContains(second.stdout, SkipAny)

\* (mutation of FinalOutcome: the exit status of the initial invocation is ignored)
FinalOutcomeAlwaysOk(first) == "Ok"

\* the final `if output.status.success()` of install_all
FinalOutcome(first) == IF first.success THEN "Ok" ELSE "ErrInstall"

\* the text of the anyhow error install_all returns: the message of the bail!
\* taken (the io::Error of a failed spawn carries no package name)
BailMessage(ret) ==
    IF ret = "ErrRetry"
    THEN << "Failed to install critical Qt packages. You may need to manually resolve package conflicts.",
            "Try running: sudo dnf install --allowerasing ",
            "qt6-qtbase-devel", " ", "qt6-qtdeclarative-devel", " ", "qt6-qtwayland-devel" >>
    ELSE IF ret = "ErrInstall" THEN << "Failed to install packages" >>
    ELSE IF ret = "ErrSpawn" THEN << "io::Error" >>
    ELSE << >>

\* install_all(dry_run) on the results of its (at most two) invocations:
\* ret is Ok or the bail!/? taken, cmds the argument vectors handed to sudo,
\* in order, logged whether log_command ran
InstallAll(dry, first, second) ==
    LET none == [ ret |-> "Ok", cmds |-> << >>, skipped |-> << >>, logged |-> TRUE ]
    IN  IF dry THEN none
        ELSE IF ~first.launch
        THEN [ none EXCEPT !.ret = "ErrSpawn", !.cmds = << InstallArgs >> ]
        ELSE LET sc == SkippedCritical(first.stdout)
             IN  IF sc # << >>
                 THEN LET both == << InstallArgs, RetryArgs(sc) >>
                      IN  IF ~second.launch
                          THEN [ none EXCEPT !.ret = "ErrSpawn", !.cmds = both, !.skipped = sc ]
                          ELSE IF RetryFailed(second)
                          THEN [ none EXCEPT !.ret = "ErrRetry", !.cmds = both, !.skipped = sc ]
                          ELSE [ none EXCEPT !.ret = FinalOutcome(first), !.cmds = both,
                                             !.skipped = sc ]
                 ELSE [ none EXCEPT !.ret = FinalOutcome(first), !.cmds = << InstallArgs >> ]

\* ------------------------------------------------ system.rs: get_ninja_jobs
\* /proc/meminfo as get_ninja_jobs reads it: readable says whether read_to_string
\* succeeded, memtotal is the parsed MemTotal value in kB; a negative memtotal
\* says why there is no value: -1 no line starts with "MemTotal:", -2 that line
\* has no second field, -3 the field does not parse as usize
MemDefaultKb == 8000000

\* (mutation of get_ninja_jobs: GB counted in powers of 1000)
get_ninja_jobs_decimal(meminfo) ==
    IF ~meminfo.readable THEN 0
    ELSE LET total_kb == IF meminfo.memtotal < 0 THEN MemDefaultKb ELSE meminfo.memtotal
             total_gb == (total_kb \div 1000) \div 1000
         IN  IF total_gb < 2 THEN 1 ELSE IF total_gb < 4 THEN 2 ELSE 0

\* (mutation of get_ninja_jobs: the two limits are swapped)
get_ninja_jobs_swapped(meminfo) ==
    IF ~meminfo.readable THEN 0
    ELSE LET total_kb == IF meminfo.memtotal < 0 THEN MemDefaultKb ELSE meminfo.memtotal
             total_gb == (total_kb \div 1024) \div 1024
         IN  IF total_gb < 2 THEN 2 ELSE IF total_gb < 4 THEN 1 ELSE 0

\* (mutation of get_ninja_jobs: a missing value is taken as no memory at all)
get_ninja_jobs_default_zero(meminfo) ==
    IF ~meminfo.readable THEN 0
    ELSE LET total_kb == IF meminfo.memtotal < 0 THEN 0 ELSE meminfo.memtotal
             total_gb == (total_kb \div 1024) \div 1024
         IN  IF total_gb < 2 THEN 1 ELSE IF total_gb < 4 THEN 2 ELSE 0

get_ninja_jobs(meminfo) ==
    IF ~meminfo.readable THEN 0
    ELSE LET total_kb == IF meminfo.memtotal < 0 THEN MemDefaultKb ELSE meminfo.memtotal
             total_gb == (total_kb \div 1024) \div 1024
         IN  IF total_gb < 2 THEN 1 ELSE IF total_gb < 4 THEN 2 ELSE 0

\* hosts the pipeline is explored on
MemInfos ==
    { [ readable |-> FALSE, memtotal |-> -1 ],
      [ readable |-> TRUE, memtotal |-> -1 ],
      [ readable |-> TRUE, memtotal |-> 1500000 ],
      [ readable |-> TRUE, memtotal |-> 3000000 ],
      [ readable |-> TRUE, memtotal |-> 16000000 ] }

\* (mutation of BuildArgs: `-j N` is pushed whatever N is)
BuildArgsAlwaysJ(dir, jobs) == << "cmake", "--build", dir, "-j", jobs >>

\* `cmake --build <dir>` with `-j N` pushed when jobs > 0
BuildArgs(dir, jobs) ==
    IF jobs > 0 THEN << "cmake", "--build", dir, "-j", jobs >>
    ELSE << "cmake", "--build", dir >>

\* ------------------------------------------------- the shape of a step body
\* A step body is a list of stages run in order.  A stage is an external
\* command (kind "proc": exits 0 "ok", exits non-zero "fail", or cannot be
\* launched "nolaunch"), a direct filesystem mutation (kind "fs": "ok" or
\* "fail"), a file read (kind "read"), a log call (kind "log") or a
\* ui::warning without a failed command (kind "warn").  For each outcome the
\* stage says what the code does: "go" (carry on), "warn" (ui::warning, carry
\* on), "err" (bail! or `?`: the function returns Err).  okskip/failskip is
\* the number of following stages the code jumps over on that outcome (the
\* arm of an if/match that is not taken); oom marks a failed build after which
\* check_oom_event() runs before the bail!; faillog/nllog mark a log_error on
\* that outcome; outlog marks a log_output of the captured stdout, made
\* whatever the exit status; tail marks a failed build whose captured stdout is
\* printed from byte len - 2000 on (`&stdout[start..]`): the slice panics when
\* that byte is not the first of a character (outcome "fail-midchar"), and the
\* function then does not return ("Panic").
\* (mutation of Stage: check_oom_event follows every failed command)
StageOomAlways(kind, cmd, fail, nolaunch) ==
    [ kind |-> kind, cmd |-> cmd, fail |-> fail, nolaunch |-> nolaunch,
      okskip |-> 0, failskip |-> 0, oom |-> TRUE, faillog |-> FALSE, nllog |-> FALSE,
      outlog |-> FALSE, tail |-> FALSE ]

Stage(kind, cmd, fail, nolaunch) ==
    [ kind |-> kind, cmd |-> cmd, fail |-> fail, nolaunch |-> nolaunch,
      okskip |-> 0, failskip |-> 0, oom |-> FALSE, faillog |-> FALSE, nllog |-> FALSE,
      outlog |-> FALSE, tail |-> FALSE ]

Proc(cmd, fail, nolaunch) == Stage("proc", cmd, fail, nolaunch)
Fs(cmd, fail) == Stage("fs", cmd, fail, "go")
Read(cmd, fail) == Stage("read", cmd, fail, "go")
Log(msg) == Stage("log", << msg >>, "go", "go")
Warn(msg) == Stage("warn", << msg >>, "go", "go")

\* the code discards the result of the stage (`.ok()`, `let _ =`): nothing it
\* does afterwards depends on how the stage went
Discarded(st) ==
    /\ st.fail = "go" /\ st.nolaunch = "go" /\ st.okskip = st.failskip
    /\ ~st.faillog /\ ~st.nllog /\ ~st.outlog

\* how a stage can go; "any" stands for every result of a stage whose result
\* is discarded
Outcomes(st) ==
    IF st.kind \in { "proc", "fs", "read" } /\ Discarded(st) THEN { "any" }
    ELSE IF st.kind = "proc"
    THEN { "ok", "fail", "nolaunch" } \cup ( IF st.tail THEN { "fail-midchar" } ELSE {} )
    ELSE IF st.kind \in { "fs", "read" } THEN { "ok", "fail" }
    ELSE { "ok" }

\* what was done: the stage, its outcome and what the code did about it
Op(kind, cmd, r, act) == [ kind |-> kind, cmd |-> cmd, r |-> r, act |-> act ]

\* (mutation of Logged: a log file that cannot be opened surfaces as a failed
\* operation of the caller)
LoggedOrFails(ops, msg, can_log) ==
    IF can_log THEN Append(ops, [ kind |-> "log", cmd |-> << msg >>, r |-> "ok", act |-> "go" ])
    ELSE Append(ops, [ kind |-> "fs", cmd |-> << "open log" >>, r |-> "fail", act |-> "err" ])

\* log::log and its wrappers: a line is appended when the log file can be opened
LogOp(msg) == Op("log", << msg >>, "ok", "go")
Logged(ops, msg, can_log) == IF can_log THEN Append(ops, LogOp(msg)) ELSE ops

\* what a function returned and did
\* (pre is the already-installed check: "unevaluated", "satisfied" or "unsatisfied";
\* "none" for a function that has no such check)
Done(ret, warn, ops) == [ ret |-> ret, warn |-> warn, ops |-> ops, pre |-> "none" ]
Fresh == Done("Ok", FALSE, << >>)

\* check_oom_event(): dmesg finds OOM evidence, finds none, or cannot be launched
OomChecks(acc, can_log) ==
    { [ acc EXCEPT !.ops = Logged(Append(@, Op("proc", << "dmesg" >>, "oom", "go")),
                                   "OOM event detected in dmesg", can_log) ],
      [ acc EXCEPT !.ops = Append(@, Op("proc", << "dmesg" >>, "clean", "go")) ],
      [ acc EXCEPT !.ops = Append(@, Op("proc", << "dmesg" >>, "nolaunch", "go")) ] }

StageAct(st, r) ==
    IF r = "ok" THEN "go" ELSE IF r = "fail" THEN st.fail
    ELSE IF r = "fail-midchar" THEN "panic" ELSE st.nolaunch

StageSkip(st, r) ==
    IF r = "ok" THEN st.okskip ELSE st.failskip

\* every way the stages from i on can go, starting from what was done so far
RECURSIVE RunFrom(_, _, _, _)
RunFrom(stages, i, acc, can_log) ==
    IF i > Len(stages) THEN { acc }
    ELSE LET st == stages[i]
         IN  IF st.kind = "log"
             THEN RunFrom(stages, i + 1, [ acc EXCEPT !.ops = Logged(@, st.cmd[1], can_log) ], can_log)
             ELSE IF st.kind = "warn"
             THEN RunFrom(stages, i + 1, [ acc EXCEPT !.warn = TRUE ], can_log)
             ELSE UNION {
                 LET act == StageAct(st, r)
                     ran == Append(acc.ops, Op(st.kind, st.cmd, r, act))
                     did == IF st.outlog /\ r # "nolaunch" THEN Logged(ran, "OUT", can_log) ELSE ran
                     ops == IF (r = "fail" /\ st.faillog) \/ (r = "nolaunch" /\ st.nllog)
                            THEN Logged(did, "ERR", can_log) ELSE did
                     now == [ acc EXCEPT !.ops = ops ]
                 IN  IF act = "panic" THEN { [ now EXCEPT !.ret = "Panic" ] }
                     ELSE IF act = "err"
                     THEN IF st.oom /\ r = "fail"
                          THEN { [ a EXCEPT !.ret = "Err" ] : a \in OomChecks(now, can_log) }
                          ELSE { [ now EXCEPT !.ret = "Err" ] }
                     ELSE RunFrom(stages, i + 1 + StageSkip(st, r),
                                  [ now EXCEPT !.warn = (@ \/ act = "warn") ], can_log)
                 : r \in Outcomes(st) }

Runs(stages, can_log) == RunFrom(stages, 1, Fresh, can_log)

\* `f()?; g()`: g runs after every Ok return of f
Then(outs, stages, can_log) ==
    { o \in outs : o.ret # "Ok" }
    \cup UNION { RunFrom(stages, 1, o, can_log) : o \in { x \in outs : x.ret = "Ok" } }

\* ------------------------------------------------------------- checks.rs
\* run_all: check_fedora()?; check_network(dry_run)?; check_sudo(dry_run)?
check_fedora(is_fedora, can_log) ==
    IF ~is_fedora
    THEN { Done("Err", FALSE, Logged(<< Op("read", << "/etc/os-release" >>, "ok", "err") >>,
                                     "ERR: Not running on Fedora", can_log)) }
    ELSE { Done("Ok", FALSE, Logged(<< Op("read", << "/etc/os-release" >>, "ok", "go") >>,
                                    "Fedora detected", can_log)) }

check_network_stages(dry) ==
    IF dry THEN << >>
    ELSE << Log("CMD: ping -c 1 -W 5 fedoraproject.org"),
            [ Proc(<< "ping", "-c", "1", "-W", "5", "fedoraproject.org" >>, "err", "err")
                EXCEPT !.faillog = TRUE, !.nllog = TRUE ],
            Log("Network check passed") >>

check_sudo_stages(dry) ==
    IF dry THEN << >>
    ELSE << Log("CMD: sudo -v"),
            [ Proc(<< "sudo", "-v" >>, "err", "err") EXCEPT !.faillog = TRUE, !.nllog = TRUE ],
            Log("Sudo access verified") >>

\* (mutation of run_all: the `?` after check_fedora is dropped, the network and
\* sudo checks are made on a host that is not Fedora too)
run_all_keeps_checking(dry, is_fedora, can_log) ==
    UNION { RunFrom(check_network_stages(dry) \o check_sudo_stages(dry), 1, o, can_log)
            : o \in check_fedora(is_fedora, can_log) }

run_all(dry, is_fedora, can_log) ==
    Then(Then(check_fedora(is_fedora, can_log), check_network_stages(dry), can_log),
         check_sudo_stages(dry), can_log)

\* -------------------------------------------------------------- repos.rs
COPR_REPOS == << "solopasha/hyprland" >>

add_copr_stages(repo, dry) ==
    << Log("CMD: sudo dnf copr enable -y") >>
    \o IF dry THEN << >>
       ELSE << [ Proc(<< "sudo", "dnf", "copr", "enable", "-y", repo >>, "err", "err")
                   EXCEPT !.faillog = TRUE ],
               Log("COPR enabled") >>

RECURSIVE add_all_from(_, _, _, _)
add_all_from(i, outs, dry, can_log) ==
    IF i > Len(COPR_REPOS) THEN outs
    ELSE add_all_from(i + 1, Then(outs, add_copr_stages(COPR_REPOS[i], dry), can_log), dry, can_log)

add_all(dry, can_log) == add_all_from(1, { Fresh }, dry, can_log)

\* --------------------------------------- packages.rs: install_all as a step
\* what install_all did, from its result record
InstallAllOps(first, second, out, can_log) ==
    LET cmd_log == Logged(<< >>, "CMD: sudo dnf install -y --allowerasing", can_log)
        r(res) == IF ~res.launch THEN "nolaunch" ELSE IF res.success THEN "ok" ELSE "fail"
        op1 == IF Len(out.cmds) >= 1
               THEN << Op("proc", << "sudo" >> \o out.cmds[1], r(first),
                          IF ~first.launch \/ out.ret = "ErrInstall" THEN "err"
                          ELSE IF HasSkipMarker(first.stdout) THEN "warn" ELSE "go") >>
               ELSE << >>
        op2 == IF Len(out.cmds) >= 2
               THEN << Op("proc", << "sudo" >> \o out.cmds[2], r(second),
                          IF out.ret \in { "ErrSpawn", "ErrRetry" } THEN "err" ELSE "go") >>
               ELSE << >>
    IN  cmd_log \o op1 \o op2

install_all_step(dry, first, second, can_log) ==
    LET out == InstallAll(dry, first, second)
    IN  Done(IF out.ret = "Ok" THEN "Ok" ELSE "Err",
             ~dry /\ first.launch /\ HasSkipMarker(first.stdout),
             InstallAllOps(first, second, out, can_log))

\* ------------------------------ packages.rs: the download-and-run installers
\* the already-installed check, made after the dry-run return
Precheck(dry, satisfied) ==
    IF dry THEN "unevaluated" ELSE IF satisfied THEN "satisfied" ELSE "unsatisfied"

\* a step with a dry-run return, then an already-installed return, then a body
Guarded(dry, satisfied, body) ==
    LET pre == Precheck(dry, satisfied)
    IN  IF pre = "unsatisfied" THEN { [ o EXCEPT !.pre = pre ] : o \in body }
        ELSE { [ Fresh EXCEPT !.pre = pre ] }

install_starship(dry, has_starship, can_log) ==
    Guarded(dry, has_starship,
        Runs(<< Log("CMD: curl -sS https://starship.rs/install.sh | sh -s -- -y"),
                [ Proc(<< "sh", "-c", "curl -sS https://starship.rs/install.sh | sh -s -- -y" >>,
                       "err", "err") EXCEPT !.faillog = TRUE, !.outlog = TRUE ],
                Log("Starship installation complete") >>, can_log))

install_rust(dry, has_rustc_and_cargo, can_log) ==
    Guarded(dry, has_rustc_and_cargo,
        Runs(<< Log("CMD: curl --proto '=https' --tlsv1.2 -sSf https://sh.rustup.rs | sh -s -- -y"),
                [ Proc(<< "sh", "-c", "curl --proto '=https' --tlsv1.2 -sSf https://sh.rustup.rs | sh -s -- -y" >>,
                       "err", "err") EXCEPT !.faillog = TRUE, !.outlog = TRUE ],
                Log("Rust installation complete") >>, can_log))

\* --------------------------------------- packages.rs: verify_qt_packages
BUILD_TOOLS ==
    << "cmake", "ninja-build", "gcc-c++", "pkgconf", "fftw-devel", "iniparser-devel",
       "libqalculate-devel", "pipewire-devel", "aubio-devel" >>

\* the packages verify_qt_packages queries, in query order
VerifyPkgs == CRITICAL_QT_PACKAGES \o BUILD_TOOLS

\* the packages a host may be missing: a critical Qt package and a build tool
MissingSamples == { CRITICAL_QT_PACKAGES[1], BUILD_TOOLS[1] }

\* the `rpm -q` queries for pkgs: installed ones exit 0, absent ones non-zero
RpmQueries(pkgs, absent) ==
    [ i \in 1..Len(pkgs) |->
        Op("proc", << "rpm", "-q", pkgs[i] >>, IF pkgs[i] \in absent THEN "fail" ELSE "ok", "go") ]

\* the Qt6 private CMake config files: both there, or the first one missing
PrivateConfigs(acc) ==
    { acc,
      [ acc EXCEPT !.ret = "Err",
                   !.ops = Append(@, Op("read", << "Qt6QuickPrivateConfig.cmake" >>, "fail", "err")) ],
      [ acc EXCEPT !.ret = "Err",
                   !.ops = Append(@, Op("read", << "Qt6WaylandClientPrivateConfig.cmake" >>, "fail", "err")) ] }

\* (mutation of InstallMissing: the second round of queries is made but a
\* package still missing is not an error)
InstallMissingUnverified(acc, missing, can_log) ==
    LET cmd == << "sudo", "dnf", "install", "-y", "--allowerasing" >> \o missing
        ran(r, act) == [ acc EXCEPT !.warn = TRUE, !.ops = Append(@, Op("proc", cmd, r, act)) ]
        out(a) == [ a EXCEPT !.ops = Logged(@, "OUT", can_log) ]
        err(a) == [ a EXCEPT !.ret = "Err", !.ops = Logged(@, "ERR", can_log) ]
    IN  { [ ran("nolaunch", "err") EXCEPT !.ret = "Err" ] }
        \cup { err(out(ran(r, "err"))) : r \in { "ok-skipping", "fail-skipping", "fail" } }
        \cup { [ out(ran("ok", "go")) EXCEPT !.ops = @ \o RpmQueries(missing, still) ]
               : still \in SUBSET Range(missing) }

\* the install of the missing packages and the second round of queries
InstallMissing(acc, missing, can_log) ==
    LET cmd == << "sudo", "dnf", "install", "-y", "--allowerasing" >> \o missing
        ran(r, act) == [ acc EXCEPT !.warn = TRUE, !.ops = Append(@, Op("proc", cmd, r, act)) ]
        out(a) == [ a EXCEPT !.ops = Logged(@, "OUT", can_log) ]
        err(a) == [ a EXCEPT !.ret = "Err", !.ops = Logged(@, "ERR", can_log) ]
    IN  { [ ran("nolaunch", "err") EXCEPT !.ret = "Err" ] }
        \cup { err(out(ran(r, "err"))) : r \in { "ok-skipping", "fail-skipping", "fail" } }
        \cup { LET again == [ out(ran("ok", "go")) EXCEPT
                                !.ops = @ \o RpmQueries(missing, still) ]
               IN  IF still # {} THEN [ again EXCEPT !.ret = "Err" ] ELSE again
               : still \in SUBSET Range(missing) }

\* verify_qt_packages(); rpm itself either launches for every query or for none
verify_qt_packages(can_log) ==
    LET norpm == Done("Err", FALSE, << Op("proc", << "rpm", "-q", VerifyPkgs[1] >>, "nolaunch", "err") >>)
        queried == { [ absent |-> a, acc |-> Done("Ok", FALSE, RpmQueries(VerifyPkgs, a)) ]
                     : a \in SUBSET MissingSamples }
        installed == UNION { IF q.absent = {} THEN { q.acc }
                             ELSE InstallMissing(q.acc,
                                      SelectSeq(VerifyPkgs, LAMBDA pkg : pkg \in q.absent), can_log)
                             : q \in queried }
    IN  { norpm } \cup { o \in installed : o.ret = "Err" }
        \cup UNION { PrivateConfigs(o) : o \in { x \in installed : x.ret = "Ok" } }

\* ------------------------------------------- packages.rs: the source builds
RemoveStale(exists, dir) == IF exists THEN << Fs(<< "remove_dir_all", dir >>, "go") >> ELSE << >>

install_hyprland_qt_support(dry, installed, tmp_exists, jobs, can_log) ==
    Guarded(dry, installed,
        Runs(RemoveStale(tmp_exists, "/tmp/hyprland-qt-support") \o
             << Proc(<< "git", "clone", "https://github.com/hyprwm/hyprland-qt-support" >>, "go", "err"),
                [ Proc(<< "cmake", "-B", "/tmp/hyprland-qt-support/build" >>, "err", "err")
                    EXCEPT !.faillog = TRUE ],
                [ Proc(BuildArgs("/tmp/hyprland-qt-support/build", jobs), "err", "err")
                    EXCEPT !.faillog = TRUE, !.oom = TRUE ],
                Proc(<< "sudo", "cmake", "--install", "/tmp/hyprland-qt-support/build" >>, "go", "err") >>,
             can_log))

install_hyprland_qtutils(dry, installed, tmp_exists, jobs, can_log) ==
    Guarded(dry, installed,
        Then(verify_qt_packages(can_log),
             RemoveStale(tmp_exists, "/tmp/hyprland-qtutils") \o
             << Proc(<< "git", "clone", "https://github.com/hyprwm/hyprland-qtutils" >>, "go", "err"),
                [ Proc(<< "cmake", "-B", "/tmp/hyprland-qtutils/build" >>, "err", "err")
                    EXCEPT !.faillog = TRUE ],
                [ Proc(BuildArgs("/tmp/hyprland-qtutils/build", jobs), "err", "err")
                    EXCEPT !.faillog = TRUE, !.oom = TRUE ],
                Proc(<< "sudo", "cmake", "--install", "/tmp/hyprland-qtutils/build" >>, "go", "err") >>,
             can_log))

install_quickshell(dry, installed, tmp_exists, jobs, can_log) ==
    Guarded(dry, installed,
        Then(verify_qt_packages(can_log),
             RemoveStale(tmp_exists, "/tmp/quickshell") \o
             << Log("CMD: git clone --depth 1 quickshell.git /tmp/quickshell"),
                [ Proc(<< "git", "clone", "--depth", "1", "https://git.outfoxxed.me/outfoxxed/quickshell.git" >>,
                       "err", "err") EXCEPT !.faillog = TRUE ],
                Log("CMD: cmake -B build -S /tmp/quickshell"),
                [ Proc(<< "cmake", "-B", "/tmp/quickshell/build" >>, "err", "err")
                    EXCEPT !.faillog = TRUE ],
                [ Proc(BuildArgs("/tmp/quickshell/build", jobs), "err", "err")
                    EXCEPT !.outlog = TRUE, !.oom = TRUE, !.tail = TRUE ],
                Log("CMD: sudo cmake --install /tmp/quickshell/build"),
                [ Proc(<< "sudo", "cmake", "--install", "/tmp/quickshell/build" >>, "err", "err")
                    EXCEPT !.faillog = TRUE ],
                Log("Quickshell installation complete") >>,
             can_log))

install_cava_body(jobs, tmp_exists, can_log) ==
    Runs(RemoveStale(tmp_exists, "/tmp/cava-build") \o
         << Log("CMD: git clone --depth 1 https://github.com/karlstav/cava /tmp/cava-build"),
            [ Proc(<< "git", "clone", "--depth", "1", "https://github.com/karlstav/cava" >>,
                   "err", "err") EXCEPT !.faillog = TRUE ],
            Log("CMD: cmake -B build -S /tmp/cava-build"),
            [ Proc(<< "cmake", "-B", "/tmp/cava-build/build" >>, "err", "err")
                EXCEPT !.faillog = TRUE ],
            [ Proc(BuildArgs("/tmp/cava-build/build", jobs), "err", "err")
                EXCEPT !.faillog = TRUE, !.oom = TRUE ],
            Log("CMD: sudo cp /tmp/cava-build/cavacore.h /usr/include/"),
            Proc(<< "sudo", "cp", "/tmp/cava-build/cavacore.h", "/usr/include/" >>, "go", "err"),
            Log("CMD: sudo mkdir -p /usr/include/cava"),
            Proc(<< "sudo", "mkdir", "-p", "/usr/include/cava" >>, "go", "err"),
            Log("CMD: sudo ln -sf /usr/include/cavacore.h /usr/include/cava/cavacore.h"),
            Proc(<< "sudo", "ln", "-sf", "/usr/include/cavacore.h" >>, "go", "err"),
            Log("CMD: sudo cp /tmp/cava-build/build/libcavacore.a /usr/lib64/"),
            Proc(<< "sudo", "cp", "/tmp/cava-build/build/libcavacore.a", "/usr/lib64/" >>, "go", "err"),
            Fs(<< "write", "/tmp/cava-build/cava.pc" >>, "err"),
            Log("CMD: sudo cp /tmp/cava-build/cava.pc /usr/lib64/pkgconfig/"),
            Proc(<< "sudo", "cp", "/tmp/cava-build/cava.pc", "/usr/lib64/pkgconfig/" >>, "go", "err"),
            Log("Cava installation complete") >>,
         can_log)

install_cava(dry, installed, tmp_exists, jobs, can_log) ==
    Guarded(dry, installed, install_cava_body(jobs, tmp_exists, can_log))

\* ------------------------------------------------ packages.rs: install_fonts
\* one zipped font: download, then unzip and delete the archive
ZipFont(exists, zip, pattern) ==
    IF exists THEN << >>
    ELSE << [ Proc(<< "curl", "-L", "-o", zip >>, "warn", "err") EXCEPT !.failskip = 2 ],
            Proc(<< "unzip", "-o", zip, pattern >>, "warn", "err"),
            Fs(<< "remove_file", zip >>, "go") >>

install_fonts(dry, have_material, have_caskaydia, have_jetbrains, can_log) ==
    IF dry THEN { Fresh }
    ELSE Runs(<< Fs(<< "create_dir_all", "~/.local/share/fonts" >>, "err") >>
              \o ( IF have_material THEN << >>
                   ELSE << Log("CMD: curl -L -o MaterialSymbolsRounded.ttf"),
                           Proc(<< "curl", "-L", "-o", "MaterialSymbolsRounded.ttf" >>, "warn", "err") >> )
              \o ZipFont(have_caskaydia, "/tmp/CaskaydiaCove.zip", "CaskaydiaCoveNerdFont*.ttf")
              \o ZipFont(have_jetbrains, "/tmp/JetBrainsMono.zip", "JetBrainsMonoNerdFont*.ttf")
              \o << Proc(<< "fc-cache", "-fv" >>, "go", "go"),
                    Log("Font installation complete") >>,
              can_log)

\* ---------------------------------------------------- dotfiles.rs: clone_repos
DOTFILES_REPO == "https://github.com/caelestia-dots/caelestia.git"
SHELL_REPO == "https://github.com/caelestia-dots/shell.git"

\* clone_repo when dest does not exist
clone_fresh_stages(url, dest) ==
    << Fs(<< "create_dir_all", "parent of", dest >>, "err"),
       Log("CMD: git clone url dest"),
       [ Proc(<< "git", "clone", url, dest >>, "err", "err")
           EXCEPT !.faillog = TRUE, !.outlog = TRUE ],
       Log("Cloned") >>

\* (mutation of clone_repo_stages: a failed pull is an error)
clone_repo_pull_fatal(url, dest, dest_exists, dry) ==
    IF dry THEN << >>
    ELSE IF dest_exists
    THEN << Warn("already exists, pulling latest..."),
            Log("CMD: git -C dest pull"),
            Proc(<< "git", "-C", dest, "pull" >>, "err", "err") >>
    ELSE clone_fresh_stages(url, dest)

clone_repo_stages(url, dest, dest_exists, dry) ==
    IF dry THEN << >>
    ELSE IF dest_exists
    THEN << Warn("already exists, pulling latest..."),
            Log("CMD: git -C dest pull"),
            Proc(<< "git", "-C", dest, "pull" >>, "warn", "err") >>
    ELSE clone_fresh_stages(url, dest)

\* clone_repo(DOTFILES_REPO)?; clone_repo(SHELL_REPO)?; patch_gestures()? (a no-op)
clone_repos(dry, dotfiles_exists, shell_exists, can_log) ==
    Then(Runs(clone_repo_stages(DOTFILES_REPO, "~/.local/share/caelestia", dotfiles_exists, dry), can_log),
         clone_repo_stages(SHELL_REPO, "~/.config/quickshell/caelestia", shell_exists, dry),
         can_log)

\* -------------------------------------------------------------------- cli.rs
CLI_REPO == "https://github.com/caelestia-dots/cli.git"

install_fish_completions_stages(completions_exist) ==
    IF completions_exist
    THEN << Proc(<< "sudo", "cp", "completions/caelestia.fish",
                    "/usr/share/fish/vendor_completions.d/caelestia.fish" >>, "warn", "err") >>
    ELSE << >>

install_cli_body(tmp_exists, completions_exist, can_log) ==
    Runs(RemoveStale(tmp_exists, "/tmp/caelestia-cli") \o
         << Log("CMD: git clone cli.git /tmp/caelestia-cli"),
            [ Proc(<< "git", "clone", CLI_REPO, "/tmp/caelestia-cli" >>, "err", "err")
                EXCEPT !.faillog = TRUE ],
            Log("CMD: pip3 install --break-system-packages hatch-vcs"),
            Proc(<< "pip3", "install", "--break-system-packages", "hatch-vcs" >>, "warn", "err"),
            Log("CMD: pip3 install --break-system-packages /tmp/caelestia-cli"),
            [ Proc(<< "pip3", "install", "--break-system-packages", "/tmp/caelestia-cli" >>,
                   "err", "err") EXCEPT !.faillog = TRUE ],
            Proc(<< "sudo", "tee", "/usr/local/bin/caelestia" >>, "go", "go"),
            Proc(<< "sudo", "chmod", "+x", "/usr/local/bin/caelestia" >>, "go", "go"),
            Log("caelestia-cli installation complete") >>
         \o install_fish_completions_stages(completions_exist),
         can_log)

\* (mutation of install_cli: the already-installed return is missing)
install_cli_no_precheck(dry, installed, tmp_exists, completions_exist, can_log) ==
    IF dry THEN { [ Fresh EXCEPT !.pre = "unevaluated" ] }
    ELSE { [ o EXCEPT !.pre = Precheck(dry, installed) ]
           : o \in install_cli_body(tmp_exists, completions_exist, can_log) }

install_cli(dry, installed, tmp_exists, completions_exist, can_log) ==
    Guarded(dry, installed, install_cli_body(tmp_exists, completions_exist, can_log))

init_scheme(dry, have_default_scheme, have_vars, have_user, have_starship_toml, can_log) ==
    IF dry THEN { Fresh }
    ELSE Runs(( IF have_default_scheme
                THEN << Fs(<< "copy", "scheme/default.conf", "scheme/current.conf" >>, "err"),
                        Log("Color scheme initialized") >>
                ELSE << Warn("Default scheme file not found, skipping") >> )
              \o << Fs(<< "create_dir_all", "~/.config/caelestia" >>, "err") >>
              \o ( IF have_vars THEN << >> ELSE << Fs(<< "write", "hypr-vars.conf" >>, "err") >> )
              \o ( IF have_user THEN << >> ELSE << Fs(<< "write", "hypr-user.conf" >>, "err") >> )
              \o ( IF have_starship_toml
                   THEN << Read(<< "read_to_string", "starship.toml" >>, "err"),
                           Fs(<< "write", "starship.toml" >>, "err") >>
                   ELSE << >> ),
              can_log)

\* -------------------------------------------- dotfiles.rs: symlink_configs
LINKS == << "hypr", "foot", "fish", "fastfetch", "btop", "uwsm", "starship.toml" >>

\* create_symlink: dest is "absent", "dir" (a real directory) or "other" (a file or
\* a symlink)
create_symlink_stages(name, dest, source_exists, dry) ==
    IF dry THEN << >>
    ELSE ( IF dest = "dir" THEN << Warn("Backing up"), Fs(<< "rename", name, "bak" >>, "err") >>
           ELSE IF dest = "other"
           THEN << Fs(<< "remove_file", name >>, "go"), Fs(<< "remove_dir_all", name >>, "go") >>
           ELSE << >> )
         \o << Fs(<< "create_dir_all", "parent of", name >>, "err") >>
         \o ( IF source_exists
              THEN << Fs(<< "symlink", name >>, "err"), Log("Created symlink") >>
              ELSE << Warn("Source does not exist, skipping") >> )

\* the seven create_symlink calls; every destination is in the same condition
RECURSIVE symlink_from(_, _, _, _, _, _)
symlink_from(i, outs, dest, source_exists, dry, can_log) ==
    IF i > Len(LINKS) THEN outs
    ELSE symlink_from(i + 1,
                      Then(outs, create_symlink_stages(LINKS[i], dest, source_exists, dry), can_log),
                      dest, source_exists, dry, can_log)

symlink_configs(dry, dest, source_exists, can_log) ==
    symlink_from(1, { Fresh }, dest, source_exists, dry, can_log)

\* ------------------------------------------------ dotfiles.rs: build_shell
\* qml_dir: whether /usr/lib64/qt6/qml/Caelestia or /usr/lib/qt6/qml/Caelestia
\* exists once the install has run
build_shell(dry, shell_dir_exists, build_dir_exists, qml_dir, jobs, can_log) ==
    IF dry THEN { Fresh }
    ELSE IF ~shell_dir_exists
    THEN { Done("Err", FALSE, << Op("read", << "~/.config/quickshell/caelestia" >>, "fail", "err") >>) }
    ELSE Runs(( IF build_dir_exists THEN << Fs(<< "remove_dir_all", "build" >>, "err") >>
                ELSE << >> )
              \o << Fs(<< "create_dir_all", "build" >>, "err"),
                    Log("CMD: cmake -B build -S shell_dir"),
                    [ Proc(<< "cmake", "-B", "build", "-S", "~/.config/quickshell/caelestia" >>,
                           "err", "err") EXCEPT !.outlog = TRUE ],
                    [ Proc(BuildArgs("build", jobs), "err", "err")
                        EXCEPT !.outlog = TRUE, !.oom = TRUE, !.tail = TRUE ],
                    Log("CMD: sudo cmake --install build"),
                    [ Proc(<< "sudo", "cmake", "--install", "build" >>, "warn", "err")
                        EXCEPT !.faillog = TRUE,
                               !.failskip = IF qml_dir THEN 2 ELSE 1 ],
                    Log("Shell installation complete") >>
              \o ( IF qml_dir THEN << Proc(<< "ls", "-R", "qt6/qml/Caelestia" >>, "go", "go") >>
                   ELSE << >> ),
              can_log)

\* ------------------------------------------------------------------ shell.rs
set_default_shell_stages(dry) ==
    IF dry THEN << >>
    ELSE << Log("CMD: chsh -s /usr/bin/fish"),
            [ Proc(<< "chsh", "-s", "/usr/bin/fish" >>, "warn", "warn")
                EXCEPT !.failskip = 1, !.nllog = TRUE ],
            Log("Default shell changed to fish") >>

shell_setup_all(dry, can_log) == Runs(set_default_shell_stages(dry), can_log)

\* --------------------------------------------------------------- keybinds.rs
\* (mutation of add_source_line: the line is appended without looking for it)
add_source_line_always(have_hyprland_conf, has_source_line) ==
    IF ~have_hyprland_conf THEN << >>
    ELSE << Read(<< "read_to_string", "hyprland.conf" >>, "err"),
            Fs(<< "write", "hyprland.conf" >>, "err"),
            Log("Added source line to hyprland.conf") >>

add_source_line_stages(have_hyprland_conf, has_source_line) ==
    IF ~have_hyprland_conf THEN << >>
    ELSE << Read(<< "read_to_string", "hyprland.conf" >>, "err") >>
         \o ( IF has_source_line THEN << >>
              ELSE << Fs(<< "write", "hyprland.conf" >>, "err"),
                      Log("Added source line to hyprland.conf") >> )

setup_keybinds(dry, have_keybinds, have_hyprland_conf, has_source_line, can_log) ==
    IF dry THEN { Fresh }
    ELSE Runs(<< Fs(<< "create_dir_all", "~/.config/hypr" >>, "err") >>
              \o ( IF have_keybinds THEN << Warn("keybinds.conf already exists, skipping") >>
                   ELSE << Fs(<< "write", "keybinds.conf" >>, "err"),
                           Log("Created user keybinds file") >>
                        \o add_source_line_stages(have_hyprland_conf, has_source_line) ),
              can_log)

\* ----------------------------------------------------------------- greetd.rs
create_greeter_user_stages(dry) ==
    IF dry THEN << >>
    ELSE << [ Proc(<< "id", "greeter" >>, "go", "go") EXCEPT !.okskip = 3 ],
            Log("CMD: sudo useradd -r -s /usr/sbin/nologin greeter"),
            [ Proc(<< "sudo", "useradd", "-r", "-s", "/usr/sbin/nologin", "greeter" >>, "warn", "err")
                EXCEPT !.failskip = 1 ],
            Log("Greeter user created") >>

create_cache_dir_stages(dry) ==
    IF dry THEN << >>
    ELSE << Proc(<< "sudo", "mkdir", "-p", "/var/cache/tuigreet" >>, "go", "go"),
            Proc(<< "sudo", "chown", "greeter:greeter", "/var/cache/tuigreet" >>, "go", "go"),
            Proc(<< "sudo", "chmod", "0755", "/var/cache/tuigreet" >>, "go", "go"),
            Log("Cache directory created at /var/cache/tuigreet") >>

\* the config is piped into `sudo tee`: spawn, write_all to its stdin, wait
write_config_stages(dry) ==
    IF dry THEN << >>
    ELSE << Log("CMD: sudo tee /etc/greetd/config.toml"),
            Proc(<< "sudo", "mkdir", "-p", "/etc/greetd" >>, "go", "go"),
            [ Proc(<< "sudo", "tee", "/etc/greetd/config.toml" >>, "err", "err")
                EXCEPT !.faillog = TRUE, !.nllog = TRUE ],
            Log("Greetd config written") >>

run_systemctl_stages(action, service) ==
    << Log("CMD: sudo systemctl"),
       Proc(<< "sudo", "systemctl", action, service >>, "warn", "err") >>

configure_services_stages(dry) ==
    IF dry THEN << >>
    ELSE run_systemctl_stages("disable", "getty@tty1")
         \o run_systemctl_stages("enable", "greetd")
         \o << Log("CMD: sudo systemctl set-default graphical.target"),
               Proc(<< "sudo", "systemctl", "set-default", "graphical.target" >>, "warn", "err"),
               Log("Greetd service configuration complete") >>

\* (mutation of greetd::setup_all: configure_services is called before write_config)
greetd_setup_all_services_first(dry, can_log) ==
    Then(Then(Then(Runs(create_greeter_user_stages(dry), can_log),
                   create_cache_dir_stages(dry), can_log),
              configure_services_stages(dry), can_log),
         write_config_stages(dry), can_log)

greetd_setup_all(dry, can_log) ==
    Then(Then(Then(Runs(create_greeter_user_stages(dry), can_log),
                   create_cache_dir_stages(dry), can_log),
              write_config_stages(dry), can_log),
         configure_services_stages(dry), can_log)

\* ----------------------------------------------- state of the installer runs
VARIABLES
    inst_pc,         \* "idle": install_all may be called; "returned": it has returned
    inst_dry,        \* dry_run of the last call
    inst_first,      \* result of the initial dnf invocation of the last call
    inst_second,     \* result of the retry invocation of the last call
    inst_out,        \* what the last call returned and did (InstallAll)
    inst_pre,        \* host_satisfied as it was when the last call started
    host_satisfied   \* an earlier non-dry call fully succeeded on this host

ivars == << inst_pc, inst_dry, inst_first, inst_second, inst_out, inst_pre,
            host_satisfied >>

\* ------------------------------------------------------- state of a whole run
VARIABLES
    dry_run,           \* cli.dry_run
    noconfirm,         \* cli.noconfirm
    log_ok,            \* the log file can be opened for appending during this run
    phase,             \* where main/run is: "start", "confirm", "run" (at statement
                       \* pc of run), "ret" (a step function has returned, its `?`
                       \* is next), "main" (run has returned), "exited"; "parked"
                       \* when no run is being explored
    pc,                \* index into RunProgram
    step,              \* what the step function that just returned did (NoStep otherwise)
    started,           \* the step functions called so far, in order
    failed_at,         \* position in started of the first step that returned Err, 0 if none
    warned,            \* some step that returned Ok issued a warning
    progress_current,  \* Progress.current
    dnf_installs,      \* how many times `sudo dnf install` was invoked so far in the run
    asked,             \* the prompts issued so far
    completed,         \* "Installation completed successfully" was logged and printed
    rebooted,          \* `sudo reboot` was spawned
    printed,           \* what main printed after run returned Err
    run_ret,           \* what run returned: "none" (not yet), "Ok", "Err"
    exit_status        \* -1 while the process runs, then its exit status

pvars == << dry_run, noconfirm, log_ok, phase, pc, step, started, failed_at, warned,
            progress_current, dnf_installs, asked, completed, rebooted, printed, run_ret,
            exit_status >>

\* ------------------------------------------- state of the get_ninja_jobs calls
VARIABLES
    mem_pc,      \* "idle": get_ninja_jobs may be called; "returned": it has returned;
                 \* "parked" when the function is not being explored on its own
    mem_info,    \* /proc/meminfo as the last call read it
    mem_jobs,    \* what the last call returned
    mem_prev     \* meminfo and result of the call before the last one

mvars == << mem_pc, mem_info, mem_jobs, mem_prev >>

\* ------------------------------------ state of the setup_keybinds calls
VARIABLES
    key_pc,       \* "idle": setup_keybinds may be called; "returned": it has returned;
                  \* "parked": no call is being explored
    key_kb,       \* ~/.config/hypr/keybinds.conf: "absent", "user" (the user's own
                  \* file), "installer" (KEYBINDS_CONTENT) or "partial" (a failed write)
    key_conf,     \* hyprland.conf: -1 when absent, else how many times it contains
                  \* the source line
    key_out,      \* what the last call returned and did
    key_appends   \* how many times the source line was appended so far

kvars == << key_pc, key_kb, key_conf, key_out, key_appends >>

vars == << ivars, pvars, mvars, kvars >>

KeysNotCalled == [ ret |-> "none", warn |-> FALSE, ops |-> << >>, pre |-> "none" ]

KeysParked ==
    /\ key_pc = "parked" /\ key_kb = "absent" /\ key_conf = -1
    /\ key_out = KeysNotCalled /\ key_appends = 0

NoRead == [ readable |-> FALSE, memtotal |-> -1 ]
NoPrev == [ info |-> NoRead, jobs |-> -1 ]

MemParked ==
    mem_pc = "parked" /\ mem_info = NoRead /\ mem_jobs = -1 /\ mem_prev = NoPrev

NoStep == [ name |-> "none", ret |-> "none", warn |-> FALSE, ops |-> << >>, pre |-> "none", jobs |-> -1 ]

\* no run is being explored
PipeParked ==
    /\ dry_run = FALSE /\ noconfirm = FALSE /\ log_ok = FALSE
    /\ phase = "parked" /\ pc = 0 /\ step = NoStep /\ started = << >>
    /\ failed_at = 0 /\ warned = FALSE /\ progress_current = 0 /\ dnf_installs = 0 /\ asked = << >>
    /\ completed = FALSE /\ rebooted = FALSE /\ printed = << >>
    /\ run_ret = "none" /\ exit_status = -1

FirstResults == ProcResults(MaxLines)
SecondResults == ProcResultsOver(RetryLines, MaxRetryLines)

\* install_all has not been called
NotCalled == [ ret |-> "none", cmds |-> << >>, skipped |-> << >>, logged |-> FALSE ]

\* install_all has not been called on this host
InstIdle ==
    /\ inst_pc = "idle"
    /\ inst_dry = FALSE
    /\ inst_first = NoLaunch
    /\ inst_second = NoLaunch
    /\ inst_out = NotCalled
    /\ inst_pre = FALSE
    /\ host_satisfied = FALSE

InstInit == InstIdle /\ PipeParked /\ MemParked /\ KeysParked

\* a call fully succeeded: it ran for real, returned Ok and dnf skipped nothing
FullySucceeded(dry, first, out) ==
    ~dry /\ out.ret = "Ok" /\ ~OutContains(first.stdout, SkipAny)

\* install_all(true)
InstallAllDryRun ==
    /\ inst_pc = "idle"
    /\ inst_pc' = "returned"
    /\ inst_dry' = TRUE
    /\ inst_out' = InstallAll(TRUE, NoLaunch, NoLaunch)
    /\ inst_pre' = host_satisfied
    /\ UNCHANGED << inst_first, inst_second, host_satisfied, pvars, mvars, kvars >>

\* install_all(false); the second result is consumed only by a retry
InstallAllCall ==
    /\ inst_pc = "idle"
    /\ \E first \in FirstResults :
         \E second \in IF first.launch /\ SkippedCritical(first.stdout) # << >>
                       THEN SecondResults ELSE { NoLaunch } :
           LET out == InstallAll(FALSE, first, second)
           IN  /\ inst_pc' = "returned"
               /\ inst_dry' = FALSE
               /\ inst_first' = first
               /\ inst_second' = second
               /\ inst_out' = out
               /\ inst_pre' = host_satisfied
               /\ host_satisfied' = (host_satisfied \/ FullySucceeded(FALSE, first, out))
               /\ UNCHANGED << pvars, mvars, kvars >>

\* the installer is started again on the same host
InstallAllAgain ==
    /\ inst_pc = "returned"
    /\ inst_pc' = "idle"
    /\ inst_dry' = FALSE
    /\ inst_first' = NoLaunch
    /\ inst_second' = NoLaunch
    /\ inst_out' = NotCalled
    /\ inst_pre' = FALSE
    /\ UNCHANGED << host_satisfied, pvars, mvars, kvars >>

InstNext == InstallAllDryRun \/ InstallAllCall \/ InstallAllAgain

SpecInstall == InstInit /\ [][InstNext]_vars

\* =========================================================== main.rs: run, main
\* the statements of run() from Progress::new(13) on, in order
\* (mutation of Call: install_all is called where add_all should be, and the
\* other way round)
CallSwapped(name) ==
    [ kind |-> "call",
      name |-> IF name = "repos::add_all" THEN "packages::install_all"
               ELSE IF name = "packages::install_all" THEN "repos::add_all"
               ELSE name ]

Call(name) == [ kind |-> "call", name |-> name ]
ProgressStmt(label) == [ kind |-> "progress", name |-> label ]

ProgressTotal == 13

\* (mutation of RunProgram: completion is reported before the optional greetd
\* setup instead of after it)
RunProgramCompletionFirst ==
    << ProgressStmt("Running pre-flight checks..."),    Call("checks::run_all"),
       ProgressStmt("Adding COPR repositories..."),     Call("repos::add_all"),
       ProgressStmt("Installing packages..."),          Call("packages::install_all"),
                                                        Call("packages::install_starship"),
                                                        Call("packages::install_rust"),
       ProgressStmt("Installing Hyprland Qt utils..."), Call("packages::install_hyprland_qt_support"),
                                                        Call("packages::install_hyprland_qtutils"),
       ProgressStmt("Building Quickshell..."),          Call("packages::install_quickshell"),
       ProgressStmt("Installing Cava..."),              Call("packages::install_cava"),
       ProgressStmt("Installing Fonts..."),             Call("packages::install_fonts"),
                                                        Call("dotfiles::clone_repos"),
       ProgressStmt("Installing caelestia-cli..."),     Call("cli::install_cli"),
       ProgressStmt("Symlinking configurations..."),    Call("dotfiles::symlink_configs"),
       ProgressStmt("Initializing color scheme..."),    Call("cli::init_scheme"),
       ProgressStmt("Building caelestia-shell..."),     Call("dotfiles::build_shell"),
       ProgressStmt("Setting up Fish shell..."),        Call("shell::setup_all"),
       ProgressStmt("Setting up Hyprland keybinds..."), Call("keybinds::setup_keybinds"),
       [ kind |-> "completion", name |-> "" ],
       [ kind |-> "prompt", name |-> "greetd" ],        Call("greetd::setup_all"),
       [ kind |-> "reboot", name |-> "" ] >>

RunProgram ==
    << ProgressStmt("Running pre-flight checks..."),    Call("checks::run_all"),
       ProgressStmt("Adding COPR repositories..."),     Call("repos::add_all"),
       ProgressStmt("Installing packages..."),          Call("packages::install_all"),
                                                        Call("packages::install_starship"),
                                                        Call("packages::install_rust"),
       ProgressStmt("Installing Hyprland Qt utils..."), Call("packages::install_hyprland_qt_support"),
                                                        Call("packages::install_hyprland_qtutils"),
       ProgressStmt("Building Quickshell..."),          Call("packages::install_quickshell"),
       ProgressStmt("Installing Cava..."),              Call("packages::install_cava"),
       ProgressStmt("Installing Fonts..."),             Call("packages::install_fonts"),
                                                        Call("dotfiles::clone_repos"),
       ProgressStmt("Installing caelestia-cli..."),     Call("cli::install_cli"),
       ProgressStmt("Symlinking configurations..."),    Call("dotfiles::symlink_configs"),
       ProgressStmt("Initializing color scheme..."),    Call("cli::init_scheme"),
       ProgressStmt("Building caelestia-shell..."),     Call("dotfiles::build_shell"),
       ProgressStmt("Setting up Fish shell..."),        Call("shell::setup_all"),
       ProgressStmt("Setting up Hyprland keybinds..."), Call("keybinds::setup_keybinds"),
       [ kind |-> "prompt", name |-> "greetd" ],        Call("greetd::setup_all"),
       [ kind |-> "completion", name |-> "" ],
       [ kind |-> "reboot", name |-> "" ] >>

Init ==
    /\ InstIdle /\ MemParked /\ KeysParked
    /\ dry_run \in BOOLEAN /\ noconfirm \in BOOLEAN /\ log_ok \in BOOLEAN
    /\ phase = "start" /\ pc = 0 /\ step = NoStep /\ started = << >>
    /\ failed_at = 0 /\ warned = FALSE /\ progress_current = 0 /\ dnf_installs = 0 /\ asked = << >>
    /\ completed = FALSE /\ rebooted = FALSE /\ printed = << >>
    /\ run_ret = "none" /\ exit_status = -1

\* print_banner(); log::init()?; log "Installation started"; the dry-run warning
LogInit ==
    /\ phase = "start"
    /\ \E init_ok \in BOOLEAN :
         IF init_ok THEN phase' = "confirm" /\ run_ret' = run_ret
         ELSE phase' = "main" /\ run_ret' = "Err"
    /\ UNCHANGED << ivars, mvars, kvars, dry_run, noconfirm, log_ok, pc, step, started, failed_at, warned,
                    progress_current, dnf_installs, asked, completed, rebooted, printed, exit_status >>

\* (mutation of Confirm: declining the confirmation is returned as an error)
ConfirmDeclineIsError ==
    /\ phase = "confirm"
    /\ IF ~noconfirm /\ ~dry_run
       THEN \E answer \in BOOLEAN :
              /\ asked' = Append(asked, "continue")
              /\ IF answer THEN phase' = "run" /\ pc' = 1 /\ run_ret' = run_ret
                 ELSE phase' = "main" /\ pc' = pc /\ run_ret' = "Err"
       ELSE asked' = asked /\ phase' = "run" /\ pc' = 1 /\ run_ret' = run_ret
    /\ UNCHANGED << ivars, mvars, kvars, dry_run, noconfirm, log_ok, step, started, failed_at, warned,
                    progress_current, dnf_installs, completed, rebooted, printed, exit_status >>

\* the confirmation, asked when neither --noconfirm nor --dry-run is given
Confirm ==
    /\ phase = "confirm"
    /\ IF ~noconfirm /\ ~dry_run
       THEN \E answer \in BOOLEAN :
              /\ asked' = Append(asked, "continue")
              /\ IF answer THEN phase' = "run" /\ pc' = 1 /\ run_ret' = run_ret
                 ELSE phase' = "main" /\ pc' = pc /\ run_ret' = "Ok"
       ELSE asked' = asked /\ phase' = "run" /\ pc' = 1 /\ run_ret' = run_ret
    /\ UNCHANGED << ivars, mvars, kvars, dry_run, noconfirm, log_ok, step, started, failed_at, warned,
                    progress_current, dnf_installs, completed, rebooted, printed, exit_status >>

\* run is at a statement of the given kind and name
At(kind, name) ==
    phase = "run" /\ RunProgram[pc].kind = kind /\ RunProgram[pc].name = name

\* (mutation of ProgressStep: the first banner is printed without being
\* counted)
ProgressStepSkipsFirst ==
    /\ phase = "run" /\ RunProgram[pc].kind = "progress"
    /\ progress_current' = IF pc = 1 THEN progress_current ELSE progress_current + 1
    /\ pc' = pc + 1
    /\ UNCHANGED << ivars, mvars, kvars, dry_run, noconfirm, log_ok, phase, step, started, failed_at, warned,
                    dnf_installs, asked, completed, rebooted, printed, run_ret, exit_status >>

\* progress.step(label)
ProgressStep ==
    /\ phase = "run" /\ RunProgram[pc].kind = "progress"
    /\ progress_current' = progress_current + 1
    /\ pc' = pc + 1
    /\ UNCHANGED << ivars, mvars, kvars, dry_run, noconfirm, log_ok, phase, step, started, failed_at, warned,
                    dnf_installs, asked, completed, rebooted, printed, run_ret, exit_status >>

\* a `sudo dnf install ...` invocation
IsDnfInstall(op) ==
    op.kind = "proc" /\ op.cmd[1] = "sudo" /\ op.cmd[2] = "dnf" /\ op.cmd[3] = "install"

\* how many of the operations are `sudo dnf install` invocations
DnfInstalls(ops) == Cardinality({ i \in 1..Len(ops) : IsDnfInstall(ops[i]) })

\* a `cmake --build ...` invocation
IsBuild(op) == op.kind = "proc" /\ op.cmd[1] = "cmake" /\ op.cmd[2] = "--build"

\* the step function `name` was called and has returned o; jobs is what
\* get_ninja_jobs returned to it, recorded when the step got as far as its build
ReturnedJobs(name, o, jobs) ==
    /\ dnf_installs' = dnf_installs + DnfInstalls(o.ops)
    /\ step' = [ name |-> name, ret |-> o.ret, warn |-> o.warn, ops |-> o.ops, pre |-> o.pre,
                 jobs |-> IF \E i \in 1..Len(o.ops) : IsBuild(o.ops[i]) THEN jobs ELSE -1 ]
    /\ started' = Append(started, name)
    /\ failed_at' = IF failed_at = 0 /\ o.ret = "Err" THEN Len(started) + 1 ELSE failed_at
    /\ phase' = "ret"
    /\ UNCHANGED << ivars, mvars, kvars, dry_run, noconfirm, log_ok, pc, warned, progress_current, asked,
                    completed, rebooted, printed, run_ret, exit_status >>

\* a step function that does not build was called and has returned o
Returned(name, o) == ReturnedJobs(name, o, -1)

\* the job counts get_ninja_jobs can return on the hosts explored
JobCounts == { get_ninja_jobs(m) : m \in MemInfos }

CallRunAll ==
    /\ At("call", "checks::run_all")
    /\ \E is_fedora \in BOOLEAN :
         \E o \in run_all(dry_run, is_fedora, log_ok) : Returned("checks::run_all", o)

CallAddAll ==
    /\ At("call", "repos::add_all")
    /\ \E o \in add_all(dry_run, log_ok) : Returned("repos::add_all", o)

CallInstallAll ==
    /\ At("call", "packages::install_all")
    /\ \E first \in IF dry_run THEN { NoLaunch } ELSE FirstResults :
         \E second \in IF first.launch /\ SkippedCritical(first.stdout) # << >>
                       THEN SecondResults ELSE { NoLaunch } :
           Returned("packages::install_all", install_all_step(dry_run, first, second, log_ok))

CallInstallStarship ==
    /\ At("call", "packages::install_starship")
    /\ \E has_starship \in BOOLEAN :
         \E o \in install_starship(dry_run, has_starship, log_ok) :
           Returned("packages::install_starship", o)

CallInstallRust ==
    /\ At("call", "packages::install_rust")
    /\ \E has_rust \in BOOLEAN :
         \E o \in install_rust(dry_run, has_rust, log_ok) :
           Returned("packages::install_rust", o)

CallInstallHyprlandQtSupport ==
    /\ At("call", "packages::install_hyprland_qt_support")
    /\ \E installed, tmp_exists \in BOOLEAN, jobs \in JobCounts :
         \E o \in install_hyprland_qt_support(dry_run, installed, tmp_exists, jobs, log_ok) :
           ReturnedJobs("packages::install_hyprland_qt_support", o, jobs)

CallInstallHyprlandQtutils ==
    /\ At("call", "packages::install_hyprland_qtutils")
    /\ \E installed, tmp_exists \in BOOLEAN, jobs \in JobCounts :
         \E o \in install_hyprland_qtutils(dry_run, installed, tmp_exists, jobs, log_ok) :
           ReturnedJobs("packages::install_hyprland_qtutils", o, jobs)

CallInstallQuickshell ==
    /\ At("call", "packages::install_quickshell")
    /\ \E installed, tmp_exists \in BOOLEAN, jobs \in JobCounts :
         \E o \in install_quickshell(dry_run, installed, tmp_exists, jobs, log_ok) :
           ReturnedJobs("packages::install_quickshell", o, jobs)

CallInstallCava ==
    /\ At("call", "packages::install_cava")
    /\ \E installed, tmp_exists \in BOOLEAN, jobs \in JobCounts :
         \E o \in install_cava(dry_run, installed, tmp_exists, jobs, log_ok) :
           ReturnedJobs("packages::install_cava", o, jobs)

CallInstallFonts ==
    /\ At("call", "packages::install_fonts")
    /\ \E have_material, have_caskaydia, have_jetbrains \in BOOLEAN :
         \E o \in install_fonts(dry_run, have_material, have_caskaydia, have_jetbrains, log_ok) :
           Returned("packages::install_fonts", o)

CallCloneRepos ==
    /\ At("call", "dotfiles::clone_repos")
    /\ \E dotfiles_exists, shell_exists \in BOOLEAN :
         \E o \in clone_repos(dry_run, dotfiles_exists, shell_exists, log_ok) :
           Returned("dotfiles::clone_repos", o)

CallInstallCli ==
    /\ At("call", "cli::install_cli")
    /\ \E installed, tmp_exists, completions_exist \in BOOLEAN :
         \E o \in install_cli(dry_run, installed, tmp_exists, completions_exist, log_ok) :
           Returned("cli::install_cli", o)

CallSymlinkConfigs ==
    /\ At("call", "dotfiles::symlink_configs")
    /\ \E dest \in { "absent", "dir", "other" }, source_exists \in BOOLEAN :
         \E o \in symlink_configs(dry_run, dest, source_exists, log_ok) :
           Returned("dotfiles::symlink_configs", o)

CallInitScheme ==
    /\ At("call", "cli::init_scheme")
    /\ \E have_default_scheme, have_vars, have_user, have_starship_toml \in BOOLEAN :
         \E o \in init_scheme(dry_run, have_default_scheme, have_vars, have_user,
                              have_starship_toml, log_ok) :
           Returned("cli::init_scheme", o)

CallBuildShell ==
    /\ At("call", "dotfiles::build_shell")
    /\ \E shell_dir_exists, build_dir_exists, qml_dir \in BOOLEAN, jobs \in JobCounts :
         \E o \in build_shell(dry_run, shell_dir_exists, build_dir_exists, qml_dir, jobs, log_ok) :
           ReturnedJobs("dotfiles::build_shell", o, jobs)

CallShellSetupAll ==
    /\ At("call", "shell::setup_all")
    /\ \E o \in shell_setup_all(dry_run, log_ok) : Returned("shell::setup_all", o)

CallSetupKeybinds ==
    /\ At("call", "keybinds::setup_keybinds")
    /\ \E have_keybinds, have_hyprland_conf, has_source_line \in BOOLEAN :
         \E o \in setup_keybinds(dry_run, have_keybinds, have_hyprland_conf, has_source_line,
                                 log_ok) :
           Returned("keybinds::setup_keybinds", o)

CallGreetdSetupAll ==
    /\ At("call", "greetd::setup_all")
    /\ \E o \in greetd_setup_all(dry_run, log_ok) : Returned("greetd::setup_all", o)

\* (mutation of Propagates: `?` is dropped, an Err return is ignored)
PropagatesNever(ret) == FALSE

\* the `?` after a step call returns from run when the step returned Err
Propagates(ret) == ret = "Err"

Question ==
    /\ phase = "ret" /\ step.ret # "Panic"
    /\ IF Propagates(step.ret)
       THEN phase' = "main" /\ pc' = pc /\ run_ret' = "Err"
       ELSE phase' = "run" /\ pc' = pc + 1 /\ run_ret' = run_ret
    /\ warned' = (warned \/ (step.ret = "Ok" /\ step.warn))
    /\ step' = NoStep
    /\ UNCHANGED << ivars, mvars, kvars, dry_run, noconfirm, log_ok, started, failed_at, progress_current, dnf_installs,
                    asked, completed, rebooted, printed, exit_status >>

\* `if cli.noconfirm || ui::prompt(...)`: the prompt is issued only without --noconfirm
GreetdPrompt ==
    /\ At("prompt", "greetd")
    /\ IF noconfirm THEN asked' = asked /\ pc' = pc + 1
       ELSE \E answer \in BOOLEAN :
              /\ asked' = Append(asked, "greetd")
              /\ pc' = IF answer THEN pc + 1 ELSE pc + 2
    /\ UNCHANGED << ivars, mvars, kvars, dry_run, noconfirm, log_ok, phase, step, started, failed_at, warned,
                    progress_current, dnf_installs, completed, rebooted, printed, run_ret, exit_status >>

\* log "Installation completed successfully"; print_completion()
Completion ==
    /\ At("completion", "")
    /\ completed' = TRUE
    /\ pc' = pc + 1
    /\ UNCHANGED << ivars, mvars, kvars, dry_run, noconfirm, log_ok, phase, step, started, failed_at, warned,
                    progress_current, dnf_installs, asked, rebooted, printed, run_ret, exit_status >>

\* (mutation of RebootPrompt: the reboot is offered in a dry run too)
RebootPromptInDryRun ==
    /\ At("reboot", "")
    /\ IF ~noconfirm
       THEN \E answer \in BOOLEAN :
              asked' = Append(asked, "reboot") /\ rebooted' = answer
       ELSE asked' = asked /\ rebooted' = rebooted
    /\ run_ret' = "Ok"
    /\ phase' = "main"
    /\ UNCHANGED << ivars, mvars, kvars, dry_run, noconfirm, log_ok, pc, step, started, failed_at, warned,
                    progress_current, dnf_installs, completed, printed, exit_status >>

\* the reboot offer, then Ok(()); the result of `sudo reboot` is discarded
RebootPrompt ==
    /\ At("reboot", "")
    /\ IF ~dry_run /\ ~noconfirm
       THEN \E answer \in BOOLEAN :
              asked' = Append(asked, "reboot") /\ rebooted' = answer
       ELSE asked' = asked /\ rebooted' = rebooted
    /\ run_ret' = "Ok"
    /\ phase' = "main"
    /\ UNCHANGED << ivars, mvars, kvars, dry_run, noconfirm, log_ok, pc, step, started, failed_at, warned,
                    progress_current, dnf_installs, completed, printed, exit_status >>

\* the `lines` argument main passes to show_recent_logs
RecentLines == 20

\* sizes (in lines) the log file can have when main reads it back
LogLineCounts == { 0, 1, RecentLines - 1, RecentLines, RecentLines + 1, 2 * RecentLines }

\* (mutation of show_recent_logs: the whole log is printed)
show_recent_logs_all(lines, inited, readable, n) ==
    IF inited /\ readable
    THEN << "info: Recent log entries" >> \o [ i \in 1..n |-> "log line" ]
    ELSE << >>

\* log::show_recent_logs(lines): what it prints, one entry per printed line;
\* inited says whether log::init succeeded, readable whether the log file can
\* be read back, n how many lines it has
show_recent_logs(lines, inited, readable, n) ==
    IF inited /\ readable
    THEN LET start == IF n > lines THEN n - lines ELSE 0
         IN  << "info: Recent log entries" >> \o [ i \in 1..(n - start) |-> "log line" ]
    ELSE << >>

\* what main prints when run returned Err
ErrorReport(inited, readable, n) ==
    << "error: Installation failed", "info: Check the log for details:" >>
    \o show_recent_logs(RecentLines, inited, readable, n)
    \o << "print_diagnostics", "print_troubleshooting" >>

\* main: run returned Err; log::init had succeeded exactly when a step was started
MainErr ==
    /\ phase = "main" /\ run_ret = "Err"
    /\ \E readable \in BOOLEAN, n \in LogLineCounts :
         printed' = ErrorReport(started # << >>, readable, n)
    /\ exit_status' = 1
    /\ phase' = "exited"
    /\ UNCHANGED << ivars, mvars, kvars, dry_run, noconfirm, log_ok, pc, step, started, failed_at, warned,
                    progress_current, dnf_installs, asked, completed, rebooted, run_ret >>

\* main: run returned Ok, main falls off its end
MainOk ==
    /\ phase = "main" /\ run_ret = "Ok"
    /\ exit_status' = 0
    /\ phase' = "exited"
    /\ UNCHANGED << ivars, mvars, kvars, dry_run, noconfirm, log_ok, pc, step, started, failed_at, warned,
                    progress_current, dnf_installs, asked, completed, rebooted, printed, run_ret >>

\* the exit status of a Rust process whose main thread panicked
PanicStatus == 101

\* the step panicked: the stack unwinds through run and main, nothing more is
\* printed by main and the process exits with the panic status
Unwind ==
    /\ phase = "ret" /\ step.ret = "Panic"
    /\ exit_status' = PanicStatus
    /\ phase' = "exited"
    /\ UNCHANGED << ivars, mvars, kvars, dry_run, noconfirm, log_ok, pc, step, started, failed_at, warned,
                    progress_current, dnf_installs, asked, completed, rebooted, printed, run_ret >>

Next ==
    \/ LogInit \/ Confirm \/ ProgressStep
    \/ CallRunAll \/ CallAddAll \/ CallInstallAll \/ CallInstallStarship \/ CallInstallRust
    \/ CallInstallHyprlandQtSupport \/ CallInstallHyprlandQtutils \/ CallInstallQuickshell
    \/ CallInstallCava \/ CallInstallFonts \/ CallCloneRepos \/ CallInstallCli
    \/ CallSymlinkConfigs \/ CallInitScheme \/ CallBuildShell \/ CallShellSetupAll
    \/ CallSetupKeybinds \/ CallGreetdSetupAll
    \/ Question \/ Unwind \/ GreetdPrompt \/ Completion \/ RebootPrompt \/ MainErr \/ MainOk

Spec == Init /\ [][Next]_vars

\* ================================================ system.rs: get_ninja_jobs
\* the limits of get_ninja_jobs in kB: total_kb / 1024 / 1024 < 2, < 4
LowLimitKb == 2 * 1024 * 1024
ModerateLimitKb == 4 * 1024 * 1024

\* MemTotal values explored: typical sizes and the values around both limits
MemTotals ==
    { 0, 1, 1500000, 3000000, MemDefaultKb, 16000000 }
    \cup { LowLimitKb + d : d \in (0 - MaxDelta)..MaxDelta }
    \cup { ModerateLimitKb + d : d \in (0 - MaxDelta)..MaxDelta }

\* what a call can find in /proc/meminfo
MemReads ==
    { NoRead } \cup { [ readable |-> TRUE, memtotal |-> v ] : v \in { -1, -2, -3 } \cup MemTotals }

MemInit ==
    /\ InstIdle /\ PipeParked /\ KeysParked
    /\ mem_pc = "idle" /\ mem_info = NoRead /\ mem_jobs = -1 /\ mem_prev = NoPrev

\* get_ninja_jobs()
NinjaJobsCall ==
    /\ mem_pc = "idle"
    /\ \E m \in MemReads :
         /\ mem_info' = m
         /\ mem_jobs' = get_ninja_jobs(m)
    /\ mem_pc' = "returned"
    /\ UNCHANGED << mem_prev, ivars, pvars, kvars >>

\* the function is called again (by the next build step, or in the next run)
NinjaJobsAgain ==
    /\ mem_pc = "returned"
    /\ mem_prev' = [ info |-> mem_info, jobs |-> mem_jobs ]
    /\ mem_pc' = "idle"
    /\ mem_info' = NoRead
    /\ mem_jobs' = -1
    /\ UNCHANGED << ivars, pvars, kvars >>

MemNext == NinjaJobsCall \/ NinjaJobsAgain

SpecMem == MemInit /\ [][MemNext]_vars

\* ================================================ keybinds.rs: setup_keybinds
\* setup_keybinds called again and again on one host: keybinds.conf and
\* hyprland.conf are what the calls left; between two calls the user may
\* delete keybinds.conf and a hyprland.conf may appear
KeysInit ==
    /\ InstIdle /\ PipeParked /\ MemParked
    /\ key_pc = "idle"
    /\ key_kb \in { "absent", "user" }
    /\ key_conf \in (0 - 1)..MaxSourceLines
    /\ key_out = KeysNotCalled
    /\ key_appends = 0

\* the file operation was made with the given result
DidFs(ops, cmd, r) == \E i \in 1..Len(ops) : ops[i].kind = "fs" /\ ops[i].cmd = cmd /\ ops[i].r = r

\* setup_keybinds(dry_run); a failed fs::write may leave the file created or
\* truncated
SetupKeybindsCall ==
    /\ key_pc = "idle"
    /\ key_conf <= MaxSourceLines
    /\ \E dry \in BOOLEAN, lg \in BOOLEAN :
         \E o \in setup_keybinds(dry, key_kb # "absent", key_conf # -1, key_conf > 0, lg) :
           /\ key_out' = o
           /\ IF DidFs(o.ops, << "write", "keybinds.conf" >>, "ok") THEN key_kb' = "installer"
              ELSE IF DidFs(o.ops, << "write", "keybinds.conf" >>, "fail")
              THEN key_kb' \in { "absent", "partial" }
              ELSE key_kb' = key_kb
           /\ IF DidFs(o.ops, << "write", "hyprland.conf" >>, "ok")
              THEN key_conf' = key_conf + 1 /\ key_appends' = key_appends + 1
              ELSE IF DidFs(o.ops, << "write", "hyprland.conf" >>, "fail")
              THEN key_conf' \in { key_conf, 0 } /\ key_appends' = key_appends
              ELSE key_conf' = key_conf /\ key_appends' = key_appends
    /\ key_pc' = "returned"
    /\ UNCHANGED << ivars, pvars, mvars >>

\* the installer is run again
SetupKeybindsAgain ==
    /\ key_pc = "returned"
    /\ key_pc' = "idle"
    /\ key_out' = KeysNotCalled
    /\ UNCHANGED << key_kb, key_conf, key_appends, ivars, pvars, mvars >>

\* between two runs the user deletes keybinds.conf
UserDeletesKeybinds ==
    /\ key_pc = "idle" /\ key_kb # "absent"
    /\ key_kb' = "absent"
    /\ UNCHANGED << key_pc, key_conf, key_out, key_appends, ivars, pvars, mvars >>

\* between two runs a hyprland.conf without the source line is put in place
\* (the dotfiles are linked by a later run, or the user writes one)
HyprlandConfAppears ==
    /\ key_pc = "idle" /\ key_conf = -1
    /\ key_conf' = 0
    /\ UNCHANGED << key_pc, key_kb, key_out, key_appends, ivars, pvars, mvars >>

KeysNext ==
    SetupKeybindsCall \/ SetupKeybindsAgain \/ UserDeletesKeybinds \/ HyprlandConfAppears

SpecKeys == KeysInit /\ [][KeysNext]_vars

\* ===================================================== claims on install_all
\* the package names of a dnf argument vector (after dnf install -y --allowerasing)
PkgArgs(cmd) == SubSeq(cmd, 5, Len(cmd))

\* a captured stdout holds one of the two skip-section headers
HasSkipPhrase(out) ==
    \E i \in 1..Len(out) :
        StrContains(out[i], SkipConflicts) \/ StrContains(out[i], SkipBroken)

InstReturnedReal == inst_pc = "returned" /\ ~inst_dry

\* C5 (as claimed): a non-dry call of install_all on a host where an earlier call
\* fully succeeded returns success without invoking any external command.
Cex_C5 ==
    (InstReturnedReal /\ inst_pre) => (inst_out.ret = "Ok" /\ inst_out.cmds = << >>)

\* C7: when the initial invocation exits successfully and its stdout holds no skip
\* marker phrase, install_all returns Ok and dnf was invoked exactly once.
Thm_C7 ==
    (InstReturnedReal /\ inst_first.launch /\ inst_first.success
        /\ ~HasSkipPhrase(inst_first.stdout))
    => (inst_out.ret = "Ok" /\ inst_out.cmds = << InstallArgs >>)

\* C7 witness: such a call whose stdout names a critical package outside any section
Wit_C7 ==
    /\ InstReturnedReal /\ inst_first.launch /\ inst_first.success
    /\ inst_first.stdout = << LineInstalling, LineQtBase >>
    /\ inst_out.ret = "Ok" /\ Len(inst_out.cmds) = 1

\* C8 (as claimed): the retry names exactly the critical packages detected as
\* skipped, and carries the conflict-resolution flag.
Cex_C8 ==
    (InstReturnedReal /\ Len(inst_out.cmds) = 2 /\ inst_second.launch)
    => ( /\ Range(PkgArgs(inst_out.cmds[2])) = Range(inst_out.skipped)
         /\ "--allowerasing" \in Range(inst_out.cmds[2]) )

\* C9 (as claimed): whenever the retry is performed, exits successfully and prints no
\* skip section, install_all returns Ok after exactly two invocations, whatever the
\* initial invocation's exit status.
Cex_C9 ==
    (InstReturnedReal /\ Len(inst_out.cmds) = 2 /\ inst_second.launch
        /\ inst_second.success /\ ~OutContains(inst_second.stdout, SkipAny))
    => inst_out.ret = "Ok"

\* C10: whenever the retry exits with failure or its stdout still holds a skip marker,
\* install_all returns an error and exactly two invocations were made.
Thm_C10 ==
    (InstReturnedReal /\ Len(inst_out.cmds) = 2 /\ inst_second.launch
        /\ (~inst_second.success \/ HasSkipPhrase(inst_second.stdout)))
    => (inst_out.ret # "Ok" /\ Len(inst_out.cmds) = 2 /\ inst_out.ret = "ErrRetry")

\* C10 witness: the retry exits successfully but its stdout still has a skip section,
\* after an initial invocation that itself exited successfully
Wit_C10 ==
    /\ InstReturnedReal /\ Len(inst_out.cmds) = 2
    /\ inst_first.success /\ inst_second.launch /\ inst_second.success
    /\ HasSkipPhrase(inst_second.stdout)
    /\ inst_out.ret = "ErrRetry"


\* a line names the package pkg: pkg stands on it as a whole word
Names(line, pkg) ==
    \E i \in 1..Len(line) :
        /\ line[i] = pkg
        /\ (i = 1 \/ line[i - 1] = " ")
        /\ (i = Len(line) \/ line[i + 1] = " ")

\* the lines of a stdout that lie inside a skip section: after a header line
\* ("Skipping packages ...") and before the next blank line or line starting
\* with "Installing" or "Upgrading"; header and ending lines are outside
RECURSIVE SectionLines(_, _, _)
SectionLines(lines, i, inside) ==
    IF i > Len(lines) THEN {}
    ELSE IF StrContains(lines[i], SkipAny) THEN SectionLines(lines, i + 1, TRUE)
    ELSE IF TrimIsEmpty(lines[i]) \/ StartsWith(lines[i], << "Installing" >>)
            \/ StartsWith(lines[i], << "Upgrading" >>)
    THEN SectionLines(lines, i + 1, FALSE)
    ELSE (IF inside THEN { i } ELSE {}) \cup SectionLines(lines, i + 1, inside)

\* the critical packages a stdout reports as skipped
ReportedSkipped(stdout) ==
    { pkg \in Range(CRITICAL_QT_PACKAGES) :
        \E i \in SectionLines(stdout, 1, FALSE) : Names(stdout[i], pkg) }

\* C11 (as claimed): when the retry fails, the error install_all returns names
\* every critical package the retry still reports as skipped.
Cex_C11 ==
    (InstReturnedReal /\ inst_out.ret = "ErrRetry")
    => \A pkg \in ReportedSkipped(inst_second.stdout) :
          StrContains(BailMessage(inst_out.ret), << pkg >>)

\* C12: when the scan records no critical package and the initial invocation
\* exited with failure, install_all returns the "Failed to install packages"
\* error and dnf was invoked exactly once.
Thm_C12 ==
    (InstReturnedReal /\ inst_first.launch /\ ~inst_first.success
        /\ SkippedCritical(inst_first.stdout) = << >>)
    => (inst_out.ret = "ErrInstall" /\ inst_out.cmds = << InstallArgs >>)

\* C12 witness: the initial invocation failed, its skip section names only fish.
Wit_C12 ==
    /\ InstReturnedReal /\ inst_first.launch /\ ~inst_first.success
    /\ inst_first.stdout = << LineHdrConflicts, LineFish >>
    /\ inst_out.ret = "ErrInstall" /\ Len(inst_out.cmds) = 1

\* C13 (as claimed): every critical package named on a line inside a skip
\* section of the initial stdout is recorded as skipped, and the retry is made.
Cex_C13 ==
    (InstReturnedReal /\ inst_first.launch)
    => \A pkg \in ReportedSkipped(inst_first.stdout) :
          pkg \in Range(inst_out.skipped) /\ Len(inst_out.cmds) = 2

\* a stdout has a skip section and that section names no critical package
SectionNamesOnlyNonCritical(stdout) ==
    /\ SectionLines(stdout, 1, FALSE) # {}
    /\ ReportedSkipped(stdout) = {}

\* C14 (as claimed): when the initial invocation exits successfully and its
\* skip section names no critical package, install_all returns Ok without a
\* retry.
Cex_C14 ==
    (InstReturnedReal /\ inst_first.launch /\ inst_first.success
        /\ HasSkipPhrase(inst_first.stdout)
        /\ SectionNamesOnlyNonCritical(inst_first.stdout))
    => (inst_out.ret = "Ok" /\ inst_out.cmds = << InstallArgs >>)

Cex_C16 ==
    (InstReturnedReal /\ inst_first.launch)
    => \A pkg \in Range(inst_out.skipped) :
          \E i \in SectionLines(inst_first.stdout, 1, FALSE) :
             Names(inst_first.stdout[i], pkg)

\* ================================================== claims on get_ninja_jobs
\* the last call read a MemTotal value
MemValueRead == mem_pc = "returned" /\ mem_info.readable /\ mem_info.memtotal >= 0

\* C17: for a MemTotal of m kB, get_ninja_jobs returns 1 when m < 2097152,
\* 2 when 2097152 <= m < 4194304, and 0 otherwise.
Thm_C17 ==
    MemValueRead
    => mem_jobs = ( IF mem_info.memtotal < 2097152 THEN 1
                    ELSE IF mem_info.memtotal < 4194304 THEN 2 ELSE 0 )

\* C17 witness: MemTotal 1500000 kB gave 1.
Wit_C17 == MemValueRead /\ mem_info.memtotal = 1500000 /\ mem_jobs = 1

\* C18: the job count is never negative, and of two calls that read values
\* m1 < m2, both below 4 GiB, the one that read m1 did not return more.
Thm_C18 ==
    mem_pc = "returned"
    => /\ mem_jobs >= 0
       /\ ( /\ MemValueRead
            /\ mem_prev.info.readable /\ mem_prev.info.memtotal >= 0
            /\ mem_info.memtotal < ModerateLimitKb
            /\ mem_prev.info.memtotal < ModerateLimitKb )
          => /\ mem_prev.info.memtotal < mem_info.memtotal => mem_prev.jobs <= mem_jobs
             /\ mem_info.memtotal < mem_prev.info.memtotal => mem_jobs <= mem_prev.jobs

\* C18 witness: a call that read 1500000 kB returned 1, the next one read
\* 3000000 kB and returned 2.
Wit_C18 ==
    /\ MemValueRead /\ mem_info.memtotal = 3000000 /\ mem_jobs = 2
    /\ mem_prev.info.readable /\ mem_prev.info.memtotal = 1500000 /\ mem_prev.jobs = 1

\* C19: when /proc/meminfo cannot be read, has no MemTotal line, or the value
\* is missing or does not parse, get_ninja_jobs returns 0.
Thm_C19 ==
    (mem_pc = "returned" /\ (~mem_info.readable \/ mem_info.memtotal < 0))
    => mem_jobs = 0

\* C19 witness: the MemTotal value did not parse and the call returned 0.
Wit_C19 ==
    mem_pc = "returned" /\ mem_info.readable /\ mem_info.memtotal = -3 /\ mem_jobs = 0

\* ==================================================== claims on the pipeline
StepReturned == phase = "ret"

\* C1: once a step function has returned Err no further step function is
\* started; the run is then at the `?` of that step or in main with run having
\* returned Err; the `?` makes run return Err, main then exits with status 1,
\* and a process that has exited after a failed step exited with status 1.
Thm_C1 ==
    /\ [][failed_at # 0 => started' = started]_vars
    /\ []((failed_at # 0 /\ exit_status = -1)
            => \/ (StepReturned /\ step.ret = "Err" /\ run_ret = "none")
               \/ (phase = "main" /\ run_ret = "Err"))
    /\ [][(failed_at # 0 /\ StepReturned) => (phase' = "main" /\ run_ret' = "Err")]_vars
    /\ [][(failed_at # 0 /\ phase = "main") => (phase' = "exited" /\ exit_status' = 1)]_vars
    /\ []((failed_at # 0 /\ exit_status # -1) => (exit_status = 1 /\ run_ret = "Err"))

\* C1 witness: the third step function called (packages::install_all) returned
\* Err, nothing was called after it, and the process has exited with status 1.
Wit_C1 ==
    /\ phase = "exited" /\ exit_status = 1 /\ run_ret = "Err"
    /\ failed_at = 3 /\ Len(started) = 3 /\ started[3] = "packages::install_all"

\* a non-zero exit of `git -C <dest> pull`, `chsh` or `sudo systemctl ...`
AbsorbedFailure(op) ==
    /\ op.kind = "proc" /\ op.r = "fail"
    /\ \/ (op.cmd[1] = "git" /\ Len(op.cmd) = 4 /\ op.cmd[2] = "-C" /\ op.cmd[4] = "pull")
       \/ op.cmd[1] = "chsh"
       \/ (op.cmd[1] = "sudo" /\ op.cmd[2] = "systemctl")

\* what the returned step did at position i was answered with a warning only
\* and the function carried on: the step issued a warning, and if it still
\* returned Err that is because of something it did later
CarriedOn(i) ==
    /\ step.ops[i].act = "warn"
    /\ step.warn
    /\ step.ret = "Err" => \E j \in (i + 1)..Len(step.ops) : step.ops[j].act = "err"

\* C2: a non-zero exit of git pull, chsh or systemctl is answered with a
\* warning and the function carries on; after a step that returned Ok with a
\* warning, run goes on to its next statement; a run in which steps warned and
\* none returned Err or panicked completes and exits with status 0.
Thm_C2 ==
    /\ [](StepReturned =>
            \A i \in 1..Len(step.ops) :
                (AbsorbedFailure(step.ops[i]) \/ step.ops[i].act = "warn") => CarriedOn(i))
    /\ [][(StepReturned /\ step.ret = "Ok" /\ step.warn)
            => (phase' = "run" /\ pc' = pc + 1 /\ run_ret' = "none" /\ warned')]_vars
    /\ []((exit_status # -1 /\ warned /\ failed_at = 0 /\ step.ret # "Panic")
            => (exit_status = 0 /\ completed))

\* C2 witness: dotfiles::clone_repos returned Ok although a `git pull` exited
\* non-zero.
Wit_C2 ==
    /\ StepReturned /\ step.name = "dotfiles::clone_repos" /\ step.ret = "Ok" /\ step.warn
    /\ \E i \in 1..Len(step.ops) :
         AbsorbedFailure(step.ops[i]) /\ step.ops[i].cmd[1] = "git"

\* what a step did that changes the filesystem or spawns a process: an external
\* command, a direct filesystem mutation, or a line appended to the log file
Mutating(op) == op.kind \in { "proc", "fs", "log" }

\* C3 (as claimed): in a dry run no step spawns an external process and no step
\* changes the filesystem.
Cex_C3 ==
    (dry_run /\ StepReturned) => \A i \in 1..Len(step.ops) : ~Mutating(step.ops[i])

\* C4 (as claimed): a dry run in which the pipeline was entered finishes as a
\* completed run with exit status 0 and no failed step, whatever the host.
Cex_C4 ==
    (dry_run /\ started # << >> /\ exit_status # -1)
    => (exit_status = 0 /\ completed /\ failed_at = 0)

\* the step functions that have an already-installed check
PrecheckSteps ==
    { "packages::install_starship", "packages::install_rust", "packages::install_quickshell",
      "packages::install_cava", "packages::install_hyprland_qt_support",
      "packages::install_hyprland_qtutils", "cli::install_cli" }

\* C6: a step with an already-installed check does not evaluate it in a dry
\* run; outside a dry run it always evaluates it, and when the check finds the
\* goal satisfied the step returns Ok having done nothing at all.
Thm_C6 ==
    (StepReturned /\ step.name \in PrecheckSteps)
    => /\ dry_run <=> step.pre = "unevaluated"
       /\ step.pre \in { "unevaluated", "satisfied", "unsatisfied" }
       /\ step.pre = "satisfied" => (step.ret = "Ok" /\ step.ops = << >> /\ ~step.warn)

\* C6 witness: outside a dry run cli::install_cli found the CLI already installed.
Wit_C6 ==
    /\ StepReturned /\ ~dry_run /\ step.name = "cli::install_cli"
    /\ step.pre = "satisfied" /\ step.ret = "Ok"


\* the kernel-log command of check_oom_event
IsOomCheck(op) == op.kind = "proc" /\ op.cmd[1] = "dmesg"

\* C20: check_oom_event runs only directly after a build command that exited
\* with failure (only log calls in between), and the step then returns Err
\* whatever the check found or even when dmesg could not be launched.
Thm_C20 ==
    StepReturned
    => \A i \in 1..Len(step.ops) :
          IsOomCheck(step.ops[i])
          => /\ step.ret = "Err"
             /\ step.ops[i].r \in { "oom", "clean", "nolaunch" }
             /\ \E j \in 1..(i - 1) :
                   /\ IsBuild(step.ops[j]) /\ step.ops[j].r = "fail" /\ step.ops[j].act = "err"
                   /\ \A k \in (j + 1)..(i - 1) : step.ops[k].kind = "log"
             /\ \A k \in (i + 1)..Len(step.ops) : step.ops[k].kind = "log"

\* C20 witness: the build of caelestia-shell failed, dmesg showed no OOM
\* evidence, and dotfiles::build_shell returned Err.
Wit_C20 ==
    /\ StepReturned /\ step.name = "dotfiles::build_shell" /\ step.ret = "Err"
    /\ \E i \in 1..Len(step.ops) : IsOomCheck(step.ops[i]) /\ step.ops[i].r = "clean"


\* C21 (as claimed): outside a dry run, a step that invoked an external command
\* which could not be launched returns Err.
Cex_C21 ==
    (StepReturned /\ ~dry_run)
    => \A i \in 1..Len(step.ops) :
          (step.ops[i].kind = "proc" /\ step.ops[i].r = "nolaunch") => step.ret = "Err"

\* a privileged installation command of a build step
IsPrivInstall(op) ==
    /\ op.kind = "proc" /\ op.cmd[1] = "sudo"
    /\ (op.cmd[2] = "cp" \/ (op.cmd[2] = "cmake" /\ op.cmd[3] = "--install"))

\* C22 (as claimed): a step in which a build command or a privileged
\* installation command exited with failure returns Err.
Cex_C22 ==
    StepReturned
    => \A i \in 1..Len(step.ops) :
          ((IsBuild(step.ops[i]) \/ IsPrivInstall(step.ops[i])) /\ step.ops[i].r = "fail")
          => step.ret = "Err"


\* how many log lines main printed
LogLinesPrinted == Cardinality({ i \in 1..Len(printed) : printed[i] = "log line" })

\* C23: the process exits with status 0 exactly when run returned Ok; after a
\* failed step main has printed the error first, then the recent log lines
\* (at most 20, after their heading), then the diagnostics, then the
\* troubleshooting list, all of it before the exit, and exits with status 1.
Thm_C23 ==
    /\ [](exit_status # -1 => (exit_status = 0 <=> run_ret = "Ok"))
    /\ [](exit_status = -1 => printed = << >>)
    /\ []((exit_status # -1 /\ run_ret = "Ok") => printed = << >>)
    /\ []((exit_status # -1 /\ failed_at # 0)
            => /\ exit_status = 1
               /\ Len(printed) >= 4
               /\ printed[1] = "error: Installation failed"
               /\ printed[2] = "info: Check the log for details:"
               /\ printed[Len(printed) - 1] = "print_diagnostics"
               /\ printed[Len(printed)] = "print_troubleshooting"
               /\ LogLinesPrinted <= 20
               /\ \A i \in 3..(Len(printed) - 2) :
                     IF i = 3 THEN printed[i] = "info: Recent log entries"
                     ELSE printed[i] = "log line")

\* C23 witness: a step failed, the log had more than 20 lines, main printed
\* the report with 20 of them and exited with status 1.
Wit_C23 ==
    /\ exit_status = 1 /\ failed_at # 0 /\ LogLinesPrinted = 20
    /\ Len(printed) = 25


\* C24 (as claimed): every step function called by run is directly preceded
\* by a progress event of its own.
Cex_C24 ==
    StepReturned => (pc > 1 /\ RunProgram[pc - 1].kind = "progress")

\* the step function a was started before position i and returned Ok
ReturnedOkBefore(a, i) ==
    \E j \in 1..(i - 1) : started[j] = a /\ (failed_at = 0 \/ failed_at > j)

SourceBuilds ==
    { "packages::install_hyprland_qt_support", "packages::install_hyprland_qtutils",
      "packages::install_quickshell", "packages::install_cava" }

\* `sudo dnf copr enable -y repo` exited successfully
CoprEnabled(op, repo) ==
    /\ op.kind = "proc" /\ op.r = "ok"
    /\ op.cmd = << "sudo", "dnf", "copr", "enable", "-y", repo >>

\* C25: outside a dry run, add_all returns Ok only when every COPR repository
\* was enabled; a step that runs `dnf install` starts only after add_all
\* returned Ok; a source build starts only after install_all returned Ok;
\* symlink_configs and build_shell start only after clone_repos returned Ok;
\* init_scheme starts only after symlink_configs returned Ok.
Thm_C25 ==
    ~dry_run
    => /\ (StepReturned /\ step.name = "repos::add_all" /\ step.ret = "Ok")
          => \A k \in 1..Len(COPR_REPOS) :
                \E i \in 1..Len(step.ops) : CoprEnabled(step.ops[i], COPR_REPOS[k])
       /\ (StepReturned /\ \E i \in 1..Len(step.ops) : IsDnfInstall(step.ops[i]))
          => ReturnedOkBefore("repos::add_all", Len(started))
       /\ \A i \in 1..Len(started) :
             /\ started[i] = "packages::install_all" => ReturnedOkBefore("repos::add_all", i)
             /\ started[i] \in SourceBuilds => ReturnedOkBefore("packages::install_all", i)
             /\ started[i] \in { "dotfiles::symlink_configs", "dotfiles::build_shell" }
                => ReturnedOkBefore("dotfiles::clone_repos", i)
             /\ started[i] = "cli::init_scheme"
                => ReturnedOkBefore("dotfiles::symlink_configs", i)

\* C25 witness: outside a dry run dotfiles::build_shell has been started, so
\* every step of the four ordering constraints has been started before it.
Wit_C25 ==
    /\ ~dry_run /\ StepReturned /\ step.name = "dotfiles::build_shell"
    /\ \E i \in 1..Len(started) : started[i] = "cli::init_scheme"
    /\ \E i \in 1..Len(started) : started[i] = "packages::install_cava"


\* C26 (as claimed): across a whole run `sudo dnf install` is invoked at most
\* twice, and only by install_all.
Cex_C26 ==
    /\ dnf_installs <= 2
    /\ (StepReturned /\ \E i \in 1..Len(step.ops) : IsDnfInstall(step.ops[i]))
       => step.name = "packages::install_all"


\* what a step function returned and did, the lines it logged left out
NotLogged(op) == op.kind # "log"

Facts(o) ==
    [ ret |-> o.ret, warn |-> o.warn, pre |-> o.pre, ops |-> SelectSeq(o.ops, NotLogged) ]

\* Facts of every way a step function can go on the hosts explored
StepFacts(name, dry, lg) ==
    LET B == BOOLEAN
    IN  CASE name = "checks::run_all" ->
               UNION { { Facts(o) : o \in run_all(dry, f, lg) } : f \in B }
          [] name = "repos::add_all" -> { Facts(o) : o \in add_all(dry, lg) }
          [] name = "packages::install_all" ->
               UNION { { Facts(install_all_step(dry, first, second, lg))
                         : second \in IF first.launch /\ SkippedCritical(first.stdout) # << >>
                                      THEN SecondResults ELSE { NoLaunch } }
                       : first \in IF dry THEN { NoLaunch } ELSE FirstResults }
          [] name = "packages::install_starship" ->
               UNION { { Facts(o) : o \in install_starship(dry, h, lg) } : h \in B }
          [] name = "packages::install_rust" ->
               UNION { { Facts(o) : o \in install_rust(dry, h, lg) } : h \in B }
          [] name = "packages::install_hyprland_qt_support" ->
               UNION { { Facts(o) : o \in install_hyprland_qt_support(dry, x[1], x[2], x[3], lg) }
                       : x \in B \X B \X JobCounts }
          [] name = "packages::install_hyprland_qtutils" ->
               UNION { { Facts(o) : o \in install_hyprland_qtutils(dry, x[1], x[2], x[3], lg) }
                       : x \in B \X B \X JobCounts }
          [] name = "packages::install_quickshell" ->
               UNION { { Facts(o) : o \in install_quickshell(dry, x[1], x[2], x[3], lg) }
                       : x \in B \X B \X JobCounts }
          [] name = "packages::install_cava" ->
               UNION { { Facts(o) : o \in install_cava(dry, x[1], x[2], x[3], lg) }
                       : x \in B \X B \X JobCounts }
          [] name = "packages::install_fonts" ->
               UNION { { Facts(o) : o \in install_fonts(dry, x[1], x[2], x[3], lg) }
                       : x \in B \X B \X B }
          [] name = "dotfiles::clone_repos" ->
               UNION { { Facts(o) : o \in clone_repos(dry, x[1], x[2], lg) } : x \in B \X B }
          [] name = "cli::install_cli" ->
               UNION { { Facts(o) : o \in install_cli(dry, x[1], x[2], x[3], lg) }
                       : x \in B \X B \X B }
          [] name = "dotfiles::symlink_configs" ->
               UNION { { Facts(o) : o \in symlink_configs(dry, x[1], x[2], lg) }
                       : x \in { "absent", "dir", "other" } \X B }
          [] name = "cli::init_scheme" ->
               UNION { { Facts(o) : o \in init_scheme(dry, x[1], x[2], x[3], x[4], lg) }
                       : x \in B \X B \X B \X B }
          [] name = "dotfiles::build_shell" ->
               UNION { { Facts(o) : o \in build_shell(dry, x[1], x[2], x[3], x[4], lg) }
                       : x \in B \X B \X B \X JobCounts }
          [] name = "shell::setup_all" -> { Facts(o) : o \in shell_setup_all(dry, lg) }
          [] name = "keybinds::setup_keybinds" ->
               UNION { { Facts(o) : o \in setup_keybinds(dry, x[1], x[2], x[3], lg) }
                       : x \in B \X B \X B }
          [] name = "greetd::setup_all" -> { Facts(o) : o \in greetd_setup_all(dry, lg) }

StepNames == { RunProgram[i].name : i \in { j \in 1..Len(RunProgram) : RunProgram[j].kind = "call" } }

StepFactsTable ==
    UNION { { << x[1], x[2], x[3], f >> : f \in StepFacts(x[1], x[2], x[3]) }
            : x \in StepNames \X BOOLEAN \X BOOLEAN }

\* C27: no logging call is an operation on which a step fails, and whatever a
\* step returns and does (its return value, its warning, its already-installed
\* check and every operation other than the logged lines) with the log file in
\* one condition (writable or not), it can also return and do with the log
\* file in the other condition.
Thm_C27 ==
    StepReturned
    => /\ \A i \in 1..Len(step.ops) :
             (step.ops[i].act = "err" \/ step.ops[i].r = "fail")
             => step.ops[i].kind \in { "proc", "fs", "read" } /\ step.ops[i].cmd # << "open log" >>
       /\ << step.name, dry_run, ~log_ok, Facts(step) >> \in StepFactsTable
       /\ ~log_ok => \A i \in 1..Len(step.ops) : step.ops[i].kind # "log"

\* C27 witness: with a log file that cannot be written, a real run's add_all
\* (which calls log_command for every repository) has returned Ok, and another
\* step has failed on a command after which log_error is called.
Wit_C27 ==
    /\ StepReturned /\ ~log_ok /\ ~dry_run
    /\ step.name = "packages::install_cava" /\ step.ret = "Err"
    /\ ReturnedOkBefore("repos::add_all", Len(started))


\* the step functions run calls unconditionally
NonOptionalSteps == StepNames \ { "greetd::setup_all" }

\* "Installation completed successfully" was logged and every non-optional
\* step was called and returned Ok
RunCompleted ==
    /\ completed /\ failed_at = 0
    /\ \A n \in NonOptionalSteps : \E i \in 1..Len(started) : started[i] = n

\* a step function returned an error
RunAborted == failed_at # 0

RunCancelled ==
    /\ ~completed /\ run_ret = "Ok" /\ exit_status = 0
    /\ started = << >> /\ asked = << "continue" >> /\ ~noconfirm /\ ~dry_run

\* log::init failed: run returned Err before the confirmation
RunLogInitFailed ==
    /\ ~completed /\ run_ret = "Err" /\ exit_status = 1 /\ started = << >> /\ asked = << >>

\* a build step panicked while printing the tail of the failed build's output:
\* neither the step nor run returned
RunPanicked ==
    /\ ~completed /\ run_ret = "none" /\ exit_status = PanicStatus /\ failed_at = 0
    /\ step.ret = "Panic" /\ started # << >> /\ started[Len(started)] = step.name
    /\ step.name \in { "packages::install_quickshell", "dotfiles::build_shell" }

PhaseOrder ==
    { << "start", "confirm" >>, << "start", "main" >>, << "confirm", "run" >>,
      << "confirm", "main" >>, << "run", "ret" >>, << "ret", "run" >>, << "ret", "main" >>,
      << "ret", "exited" >>, << "run", "main" >>, << "main", "exited" >> }

\* the calls that return, whatever they return
StepsThatReturn ==
    { x \in StepNames \X BOOLEAN \X BOOLEAN : StepFacts(x[1], x[2], x[3]) # {} }

\* some statement of main or run can be executed next
CanMove ==
    CASE phase \in { "start", "confirm", "ret" } -> TRUE
      [] phase = "main" -> run_ret \in { "Ok", "Err" }
      [] phase = "run" ->
           /\ pc \in 1..Len(RunProgram)
           /\ RunProgram[pc].kind \in { "progress", "call", "prompt", "completion", "reboot" }
           /\ RunProgram[pc].kind = "call"
              => << RunProgram[pc].name, dry_run, log_ok >> \in StepsThatReturn
      [] OTHER -> FALSE

Thm_C29 ==
    StepReturned
    => /\ \A i \in 1..Len(step.ops) :
             IsBuild(step.ops[i])
             => /\ step.jobs >= 0
                /\ IF step.jobs > 0
                   THEN /\ Len(step.ops[i].cmd) = 5
                        /\ step.ops[i].cmd[4] = "-j" /\ step.ops[i].cmd[5] = step.jobs
                   ELSE /\ Len(step.ops[i].cmd) = 3
                        /\ \A k \in 1..3 : step.ops[i].cmd[k] # "-j"
       /\ Cardinality({ i \in 1..Len(step.ops) : IsBuild(step.ops[i]) }) <= 1
       /\ (\E i \in 1..Len(step.ops) : IsBuild(step.ops[i]))
          => step.name \in SourceBuilds \cup { "dotfiles::build_shell" }

\* C29 witness: quickshell was built with the advisor returning 0, so without -j.
Wit_C29 ==
    /\ StepReturned /\ step.name = "packages::install_quickshell" /\ step.jobs = 0
    /\ \E i \in 1..Len(step.ops) : IsBuild(step.ops[i]) /\ step.ops[i].r = "ok"


\* the three pre-flight checks, in the order run_all makes them
PreflightChecks == << << "/etc/os-release" >>, << "ping", "-c", "1", "-W", "5", "fedoraproject.org" >>,
                      << "sudo", "-v" >> >>

\* C30: outside a dry run, run_all makes the Fedora, network and sudo checks
\* in that order, stops at the first that fails and returns Ok exactly when
\* all three passed; every other step function is called only after run_all
\* returned Ok, and run_all is the first step function called.
Thm_C30 ==
    ~dry_run
    => /\ (StepReturned /\ step.name = "checks::run_all")
          => LET checks == Facts(step).ops
             IN  /\ Len(checks) \in 1..3
                 /\ \A k \in 1..Len(checks) :
                       /\ checks[k].cmd = PreflightChecks[k]
                       /\ k < Len(checks) => checks[k].act = "go"
                       /\ k > 1 => (checks[k].act = "go" <=> checks[k].r = "ok")
                 /\ step.ret = "Ok" <=> (Len(checks) = 3 /\ checks[3].act = "go")
       /\ \A i \in 1..Len(started) :
             IF i = 1 THEN started[i] = "checks::run_all"
             ELSE ReturnedOkBefore("checks::run_all", i)
       /\ (StepReturned /\ step.name # "checks::run_all" /\ step.ops # << >>)
          => ReturnedOkBefore("checks::run_all", Len(started))

\* C30 witness: on a real run the network check has failed after Fedora was
\* detected; the sudo check was not made and run_all returned Err.
Wit_C30 ==
    /\ ~dry_run /\ StepReturned /\ step.name = "checks::run_all" /\ step.ret = "Err"
    /\ Len(Facts(step).ops) = 2 /\ Facts(step).ops[2].r = "fail"
    /\ started = << "checks::run_all" >>


\* the user was asked to confirm and answered no: run has returned from inside
\* the confirmation, before Progress::new
Declined == asked = << "continue" >> /\ pc = 0 /\ phase \in { "main", "exited" }

\* C31: the confirmation is asked only when neither --dry-run nor --noconfirm
\* is given and before anything else is asked; once the user has declined it,
\* no step function has been called, no command was run, no progress event and
\* no completion message were emitted, run returned Ok, and the process exits
\* with status 0 having printed no error report.
Thm_C31 ==
    /\ [][asked' # asked /\ phase = "confirm"
          => asked = << >> /\ asked' = << "continue" >> /\ ~dry_run /\ ~noconfirm]_vars
    /\ []((\E i \in 1..Len(asked) : asked[i] = "continue")
          => asked[1] = "continue" /\ ~dry_run /\ ~noconfirm)
    /\ [](Declined
          => /\ started = << >> /\ step = NoStep /\ failed_at = 0
             /\ dnf_installs = 0 /\ progress_current = 0
             /\ ~completed /\ ~rebooted /\ ~warned
             /\ run_ret = "Ok"
             /\ phase = "exited" => exit_status = 0 /\ printed = << >>)
    /\ [][Declined => Declined' /\ phase' = "exited"]_vars

\* C31 witness: the process has exited after the user declined the confirmation.
Wit_C31 == Declined /\ phase = "exited" /\ exit_status = 0


\* C32: `sudo reboot` is invoked only by run itself, in a run that is neither
\* dry-run nor --noconfirm, after the completion (so after every step called
\* returned Ok) and after the user accepted the reboot prompt, the last prompt
\* of the run; with --noconfirm no prompt is ever issued and the statement
\* after the greetd condition is the call of greetd::setup_all, which a
\* completed run has made; in a dry run the reboot command is never invoked.
Thm_C32 ==
    /\ [](rebooted
          => /\ ~dry_run /\ ~noconfirm /\ completed /\ failed_at = 0
             /\ asked # << >> /\ asked[Len(asked)] = "reboot"
             /\ phase \in { "main", "exited" } /\ run_ret = "Ok")
    /\ [](dry_run => ~rebooted)
    /\ [](noconfirm => asked = << >> /\ ~rebooted)
    /\ []((noconfirm /\ completed)
          => started # << >> /\ started[Len(started)] = "greetd::setup_all")
    /\ [][(noconfirm /\ At("prompt", "greetd"))
          => phase' = "run" /\ RunProgram[pc'] = Call("greetd::setup_all")]_vars
    /\ [](StepReturned
          => \A i \in 1..Len(step.ops) : step.ops[i].cmd # << "sudo", "reboot" >>)

\* C32 witness: the process has exited after the user accepted the reboot.
Wit_C32 == rebooted /\ phase = "exited" /\ exit_status = 0


IsSystemctl(op) == op.kind = "proc" /\ op.cmd[1] = "sudo" /\ op.cmd[2] = "systemctl"

IsTee(op) == op.kind = "proc" /\ op.cmd = << "sudo", "tee", "/etc/greetd/config.toml" >>

\* C33: in greetd::setup_all every systemctl command comes after a
\* `sudo tee /etc/greetd/config.toml` that exited successfully; when the tee
\* fails or cannot be launched, setup_all returns Err and has run no systemctl
\* command.
Thm_C33 ==
    (StepReturned /\ step.name = "greetd::setup_all")
    => \A i \in 1..Len(step.ops) :
          /\ IsSystemctl(step.ops[i])
             => \E j \in 1..(i - 1) : IsTee(step.ops[j]) /\ step.ops[j].r = "ok"
          /\ (IsTee(step.ops[i]) /\ step.ops[i].r # "ok")
             => /\ step.ret = "Err"
                /\ \A j \in 1..Len(step.ops) : ~IsSystemctl(step.ops[j])

\* C33 witness: writing the greetd configuration has failed in a real run.
Wit_C33 ==
    /\ StepReturned /\ step.name = "greetd::setup_all" /\ step.ret = "Err"
    /\ \E i \in 1..Len(step.ops) : IsTee(step.ops[i]) /\ step.ops[i].r = "fail"

\* C34 (as claimed): when configure_services has returned and
\* `systemctl disable getty@tty1` succeeded, `systemctl enable greetd`
\* succeeded too.
Cex_C34 ==
    (StepReturned /\ step.name = "greetd::setup_all")
    => \A i \in 1..Len(step.ops) :
          (step.ops[i].cmd = << "sudo", "systemctl", "disable", "getty@tty1" >>
           /\ step.ops[i].r = "ok")
          => \E j \in 1..Len(step.ops) :
                /\ step.ops[j].cmd = << "sudo", "systemctl", "enable", "greetd" >>
                /\ step.ops[j].r = "ok"


\* the operation moved away or removed the destination `name` (for a removal
\* whose result the code discards, "any" covers the case that it succeeded)
TookAway(op, name) ==
    /\ op.kind = "fs" /\ op.cmd[1] \in { "rename", "remove_file", "remove_dir_all" }
    /\ op.cmd[2] = name /\ op.r \in { "ok", "any" }

\* C35 (as claimed): in a symlink_configs that returned Ok, a destination was
\* moved away or removed only when the symlink was then created in its place.
Cex_C35 ==
    (StepReturned /\ step.name = "dotfiles::symlink_configs" /\ step.ret = "Ok")
    => \A i \in 1..Len(step.ops) : \A n \in 1..Len(LINKS) :
          TookAway(step.ops[i], LINKS[n])
          => \E j \in (i + 1)..Len(step.ops) :
                step.ops[j].cmd = << "symlink", LINKS[n] >> /\ step.ops[j].r = "ok"


\* ================================================== claims on setup_keybinds
\* C36: over any number of calls on one host, a call leaves an existing
\* keybinds.conf as it is, the source line is appended only to a hyprland.conf
\* that exists and does not contain it, and it is appended at most once.
Thm_C36 ==
    /\ [][(key_pc = "idle" /\ key_pc' = "returned" /\ key_kb # "absent") => key_kb' = key_kb]_vars
    /\ [][(key_pc = "idle" /\ key_pc' = "returned" /\ key_conf' # key_conf /\ key_conf' > 0)
          => key_conf = 0 /\ key_conf' = 1]_vars
    /\ [][key_appends' # key_appends
          => key_conf = 0 /\ key_conf' = 1 /\ key_kb = "absent" /\ key_kb' = "installer"]_vars
    /\ [](key_appends <= 1)
    /\ [](key_out.ret = "Ok" /\ DidFs(key_out.ops, << "write", "keybinds.conf" >>, "ok")
          => key_kb = "installer" /\ key_conf # 0)

\* C36 witness: a call has returned without touching hyprland.conf after the
\* user deleted the keybinds.conf of an earlier call, which had appended the line.
Wit_C36 ==
    /\ key_pc = "returned" /\ key_appends = 1 /\ key_conf = 1 /\ key_out.ret = "Ok"
    /\ DidFs(key_out.ops, << "write", "keybinds.conf" >>, "ok")
    /\ ~DidFs(key_out.ops, << "write", "hyprland.conf" >>, "ok")


\* ============================================ claims on verify_qt_packages
IsRpmQuery(op, pkg) == op.kind = "proc" /\ op.cmd = << "rpm", "-q", pkg >>

\* the operations verify_qt_packages made in the step, without the logged lines
VerifyOps == Facts(step).ops

\* the index of the last `rpm -q pkg` among ops, 0 when there is none
LastQuery(ops, pkg) ==
    LET at == { i \in 1..Len(ops) : IsRpmQuery(ops[i], pkg) }
    IN  IF at = {} THEN 0 ELSE CHOOSE i \in at : \A j \in at : j <= i

\* the packages whose first query exited non-zero, in query order
ReportedMissing(ops) ==
    SelectSeq(VerifyPkgs, LAMBDA pkg :
        \E i \in 1..Len(ops) : /\ IsRpmQuery(ops[i], pkg) /\ ops[i].r = "fail"
                               /\ \A j \in 1..(i - 1) : ~IsRpmQuery(ops[j], pkg))

\* verify_qt_packages returned Ok: the step went on to clone the sources
VerifyReturnedOk(ops) ==
    \E i \in 1..Len(ops) : ops[i].kind = "proc" /\ ops[i].cmd[1] = "git" /\ ops[i].cmd[2] = "clone"

\* C37: in a step that calls verify_qt_packages, the function returned Ok only
\* if the last `rpm -q` of every critical Qt package and build tool exited 0
\* and neither private CMake config file was found missing; `sudo dnf install`
\* is run at most once, only when a first query exited non-zero, and for
\* exactly those packages; and when that install printed a skip marker, exited
\* non-zero, could not be launched, or a package queried after it is still
\* missing, the step returns Err without going on.
Thm_C37 ==
    (StepReturned /\ step.name \in { "packages::install_quickshell",
                                     "packages::install_hyprland_qtutils" })
    => LET ops == VerifyOps
           dnf == { i \in 1..Len(ops) : IsDnfInstall(ops[i]) }
       IN  /\ Cardinality(dnf) <= 1
           /\ \A i \in dnf :
                 /\ ReportedMissing(ops) # << >>
                 /\ ops[i].cmd = << "sudo", "dnf", "install", "-y", "--allowerasing" >>
                                 \o ReportedMissing(ops)
                 /\ ops[i].r # "ok" => step.ret = "Err" /\ i = Len(ops)
                 /\ (\E j \in (i + 1)..Len(ops), n \in 1..Len(VerifyPkgs) :
                        IsRpmQuery(ops[j], VerifyPkgs[n]) /\ ops[j].r = "fail")
                    => step.ret = "Err" /\ ~VerifyReturnedOk(ops)
           /\ (dnf = {} /\ ReportedMissing(ops) # << >>) => step.ret = "Err"
           /\ VerifyReturnedOk(ops)
              => /\ \A n \in 1..Len(VerifyPkgs) :
                       /\ LastQuery(ops, VerifyPkgs[n]) # 0
                       /\ ops[LastQuery(ops, VerifyPkgs[n])].r = "ok"
                 /\ \A i \in 1..Len(ops) :
                       ops[i].kind = "read" => ops[i].r = "ok"
           /\ (\E i \in 1..Len(ops) : ops[i].kind = "read" /\ ops[i].r = "fail")
              => step.ret = "Err" /\ ~VerifyReturnedOk(ops)

\* C37 witness: quickshell was installed after verify_qt_packages found a
\* package missing, installed it and found it installed at the second query.
Wit_C37 ==
    /\ StepReturned /\ step.name = "packages::install_quickshell" /\ step.ret = "Ok"
    /\ \E i \in 1..Len(step.ops) : IsDnfInstall(step.ops[i]) /\ step.ops[i].r = "ok"


\* ============================================ claims on the progress counter
\* the progress statements of run that have been executed when run is at pc
ProgressEvents(at) ==
    Cardinality({ i \in 1..(at - 1) : i <= Len(RunProgram) /\ RunProgram[i].kind = "progress" })

\* C38: the progress counter is always between 0 and the total of 13; it
\* changes only at a progress statement of run, and then by exactly one, and
\* every progress statement changes it; and when run has reported completion
\* the last index printed is the total.
Thm_C38 ==
    /\ [](progress_current \in 0..ProgressTotal)
    /\ [][progress_current' # progress_current
          => /\ progress_current' = progress_current + 1
             /\ phase = "run" /\ RunProgram[pc].kind = "progress" /\ pc' = pc + 1]_vars
    /\ [][(phase = "run" /\ RunProgram[pc].kind = "progress" /\ pc' # pc)
          => progress_current' = progress_current + 1]_vars
    /\ [](phase = "run" => progress_current = ProgressEvents(pc))
    /\ [](completed => progress_current = ProgressTotal)

\* C38 witness: a run that completed every step and exited after printing
\* index 13 of 13.
Wit_C38 ==
    completed /\ phase = "exited" /\ exit_status = 0 /\ progress_current = ProgressTotal


\* ============================================ claims on install_quickshell
\* the stage of install_quickshell an operation belongs to, 0 for none
QuickshellStage(op) ==
    IF op.kind = "read" THEN 1
    ELSE IF op.kind # "proc" THEN 0
    ELSE IF op.cmd[1] = "rpm" \/ IsDnfInstall(op) THEN 1
    ELSE IF op.cmd[1] = "git" /\ op.cmd[2] = "clone" THEN 2
    ELSE IF op.cmd[1] = "cmake" /\ op.cmd[2] = "-B" THEN 3
    ELSE IF IsBuild(op) THEN 4
    ELSE IF IsPrivInstall(op) THEN 5
    ELSE 0

\* the operation made the stage it belongs to fail
StageFailed(op) == QuickshellStage(op) # 0 /\ op.act \in { "err", "panic" }

\* C39 (as claimed): when install_quickshell runs its body, the stages come in
\* the order verify, clone, configure, build, install; a stage is started only
\* when every earlier stage was run and none of them failed; a failed stage is
\* the last one and the step returns Err; and ``sudo cmake --install`` is not
\* run after a build that exited non-zero.
Cex_C39 ==
    (StepReturned /\ step.name = "packages::install_quickshell" /\ step.pre = "unsatisfied")
    => LET ops == Facts(step).ops
       IN  /\ \A i, j \in 1..Len(ops) :
                 (i < j /\ QuickshellStage(ops[i]) # 0 /\ QuickshellStage(ops[j]) # 0)
                 => /\ QuickshellStage(ops[i]) <= QuickshellStage(ops[j])
                    /\ ~StageFailed(ops[i])
           /\ \A j \in 1..Len(ops), n \in 1..5 :
                 n < QuickshellStage(ops[j])
                 => \E i \in 1..(j - 1) : QuickshellStage(ops[i]) = n
           /\ (\E i \in 1..Len(ops) : StageFailed(ops[i])) => step.ret = "Err"
           /\ step.ret = "Ok" => \E i \in 1..Len(ops) : QuickshellStage(ops[i]) = 5
           /\ \A i, j \in 1..Len(ops) :
                 (IsBuild(ops[i]) /\ ops[i].r # "ok" /\ IsPrivInstall(ops[j])) => j < i

====
